---- MODULE Spec2Model ----
(***************************************************************************)
(* couch-continuum: the migration engine (class CouchContinuum) and the    *)
(* part of the CouchDB cluster it talks to.                                *)
(*                                                                         *)
(* One engine migrates the primary "src" through the replica "tgt".  Every *)
(* HTTP request of createReplica / replacePrimary is one atomic step of    *)
(* the engine (variable pc); the cluster answers it from its own state     *)
(* (exists, docs, seq, cfg, sentinel, repl, jobs).  Replication runs on    *)
(* the cluster as a task of its own, which is why _replicate polls         *)
(* _active_tasks instead of trusting the return of POST /_replicate.       *)
(*                                                                         *)
(* Specifications:                                                         *)
(*   Spec            one engine, createReplica / replacePrimary            *)
(*   SpecRerun       Spec, with the migration begun again after a stop     *)
(*   SpecStatic      _setUnavailable / _setAvailable called by two clients *)
(*   SpecCheckpoint  getCheckpoint, makeCheckpoint, removeCheckpoint,      *)
(*                   getRemaining called in any order                      *)
(*   SpecBulk        migrate-all: createReplicas, replacePrimaries and the *)
(*                   checkpoint, with stops and restarts                   *)
(*   SpecCtor        new CouchContinuum({ couchUrl, source, target })      *)
(*   SpecCli         the handlers of the command line program              *)
(*   SpecSecurity    the _security objects in a migration with             *)
(*                   replicateSecurity                                     *)
(*   SpecTombstones  createReplica with and without filterTombstones       *)
(*   SpecTransport   lib/request: a response or a network error settled    *)
(*   SpecWait        _replicate on its own, with fair scheduling           *)
(*   SpecPoller      the progress timer that _replicate starts             *)
(*   SpecContinuous  createReplica with continuous, then replacePrimary    *)
(***************************************************************************)
EXTENDS Integers, Sequences, FiniteSets, TLC

\* ---------------------------------------------------------------- bounds
MaxDocs == 2      \* document ids are 1..MaxDocs
MaxWrites == 1    \* writes by other clients of the cluster during a run
MaxCalls == 2     \* calls of createReplica / replacePrimary on the engine
MaxSetCalls == 2  \* calls of _setUnavailable / _setAvailable by one client
MaxRuns == 2      \* runs of migrate-all, the first and those after a stop

\* ------------------------------------------------------ program constants
EngineQ == 4      \* the q the engine is constructed with
DefaultQ == 8     \* the q of a database created without ?q=

Docs == 1..MaxDocs
DbNames == {"src", "tgt"}
Ops == {"createReplica", "replacePrimary"}

\* One entry of GET /_scheduler/jobs or GET /_active_tasks, reduced to the
\* three fields _isInUse destructures.  A field is "none" (absent), or the
\* database the string names: "src", "tgt", or "other".
Entry(db, s, t) == [database |-> db, source |-> s, target |-> t]

\* The entries other clients of the cluster contribute: none, an unrelated
\* replication, a replication reading the primary, a replication between two
\* copies of the primary on different hosts, a compaction of the primary.
JobChoices ==
  { {},
    {Entry("none", "other", "other")},
    {Entry("none", "src", "other")},
    {Entry("none", "src", "src")},
    {Entry("src", "none", "none")} }

NoTask == [on |-> FALSE, pending |-> {}]

VARIABLES
  pc,                \* the request the engine issues next
  op,                \* the operation in progress: "none" or a member of Ops
  allowReplications, \* this.allowReplications
  legacy,            \* the cluster is CouchDB 1.x (no /_scheduler)
  jobs,              \* entries of other clients in _active_tasks/_scheduler/jobs
  exists,            \* exists[d]: database d exists
  docs,              \* docs[d]: ids of the (non-deleted) documents of d
  seq,               \* seq[d]: update_seq of d
  cfg,               \* cfg[d]: the q that d was created with
  sentinel,          \* sentinel[d]: d/_local/in-maintenance, [st, rev]
  repl,              \* repl["fwd"]: task src->tgt, repl["bwd"]: task tgt->src
  lastSeq1,          \* createReplica: const lastSeq1
  lastSeq2,          \* createReplica: const lastSeq2
  docCount1,         \* _verifyReplica: docCount1
  rev,               \* _setUnavailable/_setAvailable: rev (0: not_found)
  reqs,              \* the PUT/POST/DELETE requests this call had answered OK
  guard,             \* how _isInUse ended in this call
  verified,          \* the counts _verifyReplica read in this call were equal
  refSeen,           \* an entry referenced the primary when _isInUse ran
  err,               \* the error the last call threw ("none" if none)
  hist,              \* the finished calls: <<[op, ok]>>
  writes,            \* number of writes by other clients so far
  dirty,             \* another client wrote to the primary since the call began
  docs0,             \* the documents of the primary when createReplica began
  rerun,             \* the migration was begun again after an interrupted call
  caller,            \* caller[c]: a call of _setUnavailable/_setAvailable by c
  lastWrite,         \* the function whose write of the sentinel came last
  checkpoint,        \* the .checkpoint file: <<>> (no file) or <<its bytes>>
  cluster,           \* cluster[n]: how far database n of the bulk run is
  bulk,              \* the migrate-all process: [pc, list, i]
  migrated,          \* the databases whose replacePrimary has returned
  got,               \* what the last getCheckpoint / getRemaining returned
  ctor,              \* the arguments and the result of new CouchContinuum()
  cli,               \* a run of the command line program: [cmd, state, at, trace]
  sec,               \* _security objects in a migration with replicateSecurity
  tomb,              \* documents and tombstones in a createReplica call
  resp,              \* a response handed to the transport, and what it made of it
  poll,              \* a call of _replicate and its progress timer
  cont               \* a migration with a continuous replication

engineVars == <<pc, op, lastSeq1, lastSeq2, docCount1, rev>>
configVars == <<allowReplications, legacy, jobs>>
serverVars == <<exists, docs, seq, cfg, sentinel, repl>>
ghostVars == <<reqs, guard, verified, refSeen, err, hist, writes, dirty, docs0>>
staticVars == <<caller, lastWrite>>
bulkVars == <<checkpoint, cluster, bulk, migrated, got>>
\* the command line, and the parts of a call looked at on their own
auxVars == <<cli, sec, tomb, resp, poll, cont>>
\* the variables outside one engine's calls on one primary
sideVars == <<rerun, staticVars, bulkVars, ctor, auxVars>>
vars == <<engineVars, configVars, serverVars, ghostVars, sideVars>>

\* ------------------------------------------------------------- the cluster

NoSentinel == [st |-> "absent", rev |-> 0]

\* GET /{db}: doc_count
DocCount(d) == Cardinality(docs[d])

\* CreateQ with the qs.q assignment lost: every PUT goes out without ?q=
CreateQDropped(q) == DefaultQ

\* if (this.q) { qs.q = this.q }: the q a PUT /{db} creates the database with
CreateQ(q) == IF q # 0 THEN q ELSE DefaultQ

\* The entries GET /_active_tasks and GET /_scheduler/jobs return together:
\* those of other clients and the engine's own replication tasks.
OwnEntries ==
  (IF repl["fwd"].on THEN {Entry("none", "src", "tgt")} ELSE {}) \cup
  (IF repl["bwd"].on THEN {Entry("none", "tgt", "src")} ELSE {})

AllEntries == jobs \cup OwnEntries

\* new RegExp(`/${dbName}/`).test(field): the field names database dbName.
\* test(undefined) tests the string "undefined", which the pattern misses.
ReTest(dbName, field) == field = dbName

\* An entry references the database as source, target or database.
Refs(e, dbName) ==
  e.database = dbName \/ e.source = dbName \/ e.target = dbName

\* _isInUse, the loop body: the three assert.strictEqual(re.test(..), true)
\* of one entry all hold.
EntryAsserts(e, dbName) ==
  /\ (e.database # "none" => ReTest(dbName, e.database) = TRUE)
  /\ ReTest(dbName, e.source) = TRUE
  /\ ReTest(dbName, e.target) = TRUE

\* _isInUse returns without throwing on these entries.
IsInUsePasses(entries, dbName) == \A e \in entries : EntryAsserts(e, dbName)

\* _waitForCompletion, isUs: a listed task of this pair that is still behind
\* (missing_revisions_found > docs_written: revisions found and not written).
IsUs(task) == task.on /\ Cardinality(task.pending) > 0

\* assert(lastSeq1 <= lastSeq2, '... is still receiving updates')
SeqAssert(s1, s2) == s1 <= s2

\* CountsEqual with the assertion lost: _verifyReplica never throws
CountsEqualAlways(c1, c2) == TRUE

\* assert.strictEqual(docCount1, docCount2, ...)
CountsEqual(c1, c2) == c1 = c2

\* _isAvailable: not_found counts as available, otherwise !down
IsAvailable(d) == sentinel[d].st # "down"

\* DELETE /{db}: the database goes with its documents, its sentinel and the
\* replication tasks that read or write it.
DropDb(d) ==
  /\ exists' = [exists EXCEPT ![d] = FALSE]
  /\ docs' = [docs EXCEPT ![d] = {}]
  /\ seq' = [seq EXCEPT ![d] = 0]
  /\ sentinel' = [sentinel EXCEPT ![d] = NoSentinel]
  /\ repl' = [k \in {"fwd", "bwd"} |-> NoTask]
  /\ UNCHANGED cfg

\* PUT /{db}?q=..: creates the database; file_exists leaves it as it is
\* (_createDb swallows that error).
PutDb(d) ==
  /\ exists' = [exists EXCEPT ![d] = TRUE]
  /\ cfg' = [cfg EXCEPT ![d] = IF exists[d] THEN cfg[d] ELSE CreateQ(EngineQ)]
  /\ UNCHANGED <<docs, seq, sentinel, repl>>

\* ------------------------------------------------------------ the engine

RepDir == IF op = "createReplica" THEN "fwd" ELSE "bwd"
RepFrom == IF op = "createReplica" THEN "src" ELSE "tgt"
RepTo == IF op = "createReplica" THEN "tgt" ELSE "src"

AfterGuard(o) == IF o = "createReplica" THEN "seq1" ELSE "verify1"
AfterReplicate == IF op = "createReplica" THEN "seq2" ELSE "destroy_tgt"
AfterVerify == IF op = "createReplica" THEN "done" ELSE "destroy_src"

Resting == {"idle", "done", "failed"}

\* the steps that are a request the transport can fail
RequestSteps ==
  {"guard", "seq1", "create_tgt", "rep_count", "rep_post", "rep_wait", "seq2",
   "verify1", "verify2", "destroy_src", "create_src", "unavail_get",
   "unavail_put", "destroy_tgt", "avail_get", "avail_del"}

\* the call ends: it returns (ok) or throws e
Finish(ok, e) ==
  /\ pc' = IF ok THEN "done" ELSE "failed"
  /\ err' = e
  /\ hist' = Append(hist, [op |-> op, ok |-> ok])

\* the call goes on with step p
Goto(p) ==
  /\ pc' = p
  /\ UNCHANGED <<err, hist>>

Range(f) == {f[i] : i \in DOMAIN f}

\* ------------------------------------------------- the parts at rest

\* the clients that call _setUnavailable / _setAvailable on one database
Callers == {"a", "b"}

\* a client that has not called yet
IdleCaller == [pc |-> "idle", fn |-> "none", prev |-> "none", rev |-> 0,
               calls |-> 0, err |-> "none"]

\* nobody calls the static functions of the availability marker
StaticAtRest ==
  /\ caller = [c \in Callers |-> IdleCaller]
  /\ lastWrite = "none"

\* Strings are sequences of UTF-16 code units, as JavaScript compares them.
\* The names of the databases of a bulk run: "a", "a/b", "b".
NameA == <<97>>
NameAB == <<97, 47, 98>>
NameB == <<98>>
BulkNames == {NameA, NameAB, NameB}

\* "_users", a special database every cluster has
NameUsers == <<95, 117, 115, 101, 114, 115>>

\* const TEMP_COPY_SUFFIX = 'temp_copy_'
TempCopy == <<116, 101, 109, 112, 95, 99, 111, 112, 121, 95>>

\* what there is of a database of the bulk run: nothing, the source alone,
\* the source and its replica, the replica alone (source destroyed), the
\* recreated source and the replica
Phases == {"none", "src", "src+copy", "copy", "new+copy"}

\* a migrate-all process that does not run
BulkOff == [pc |-> "off", list |-> <<>>, i |-> 0, run |-> 0, first |-> {}]

\* nothing was asked of the checkpoint functions yet
NothingGot == [fn |-> "none", value |-> <<>>, last |-> <<>>]

\* no bulk run: no .checkpoint file, no migrate-all process
BulkAtRest ==
  /\ checkpoint = <<>>
  /\ cluster = [n \in BulkNames |-> "none"]
  /\ bulk = BulkOff
  /\ migrated = {}
  /\ got = NothingGot

\* an argument that is not given, and a URL that is not set
NoArg == [kind |-> "none", host |-> "", path |-> <<>>]
NoUrl == [host |-> "", path |-> <<>>]

\* no engine was constructed
NoCtor == [state |-> "none", couchUrl |-> "", sourceArg |-> NoArg,
           targetArg |-> NoArg, source |-> NoUrl, target |-> NoUrl]

CtorAtRest == ctor = NoCtor

\* no command was given, and the parts looked at on their own are not
CliOff == [cmd |-> "none", state |-> "off", at |-> 0, trace |-> <<>>,
           out |-> ""]
AuxOff == [pc |-> "off"]

AuxAtRest ==
  /\ cli = CliOff
  /\ sec = AuxOff
  /\ tomb = AuxOff
  /\ resp = AuxOff
  /\ poll = AuxOff
  /\ cont = AuxOff

Init ==
  /\ rerun = FALSE
  /\ StaticAtRest
  /\ BulkAtRest
  /\ CtorAtRest
  /\ AuxAtRest
  /\ pc = "idle"
  /\ op = "none"
  /\ allowReplications \in BOOLEAN
  /\ legacy \in BOOLEAN
  /\ jobs \in JobChoices
  \* the lists are read by _isInUse alone: where it is skipped or cut short
  \* one list without and one with a reference to the primary stand for all
  /\ allowReplications => ~legacy
  /\ (allowReplications \/ legacy) => jobs \in {{}, {Entry("none", "src", "other")}}
  \* document ids are interchangeable: the primary holds 1..n and a replica
  \* left by an earlier run holds the first m <= n of them
  /\ \E n \in 0..MaxDocs, te \in BOOLEAN, m \in 0..MaxDocs :
       /\ m <= n
       /\ ~te => m = 0
       /\ exists = [d \in DbNames |-> IF d = "src" THEN TRUE ELSE te]
       /\ docs = [d \in DbNames |-> IF d = "src" THEN 1..n ELSE 1..m]
       /\ seq = [d \in DbNames |-> IF d = "src" THEN n ELSE m]
       /\ cfg = [d \in DbNames |-> IF d = "src" THEN DefaultQ ELSE CreateQ(EngineQ)]
  /\ \E st \in {"absent", "down"} :
       sentinel = [d \in DbNames |->
                     IF d = "src" /\ st = "down" THEN [st |-> "down", rev |-> 1]
                     ELSE NoSentinel]
  /\ repl = [k \in {"fwd", "bwd"} |-> NoTask]
  /\ lastSeq1 = 0
  /\ lastSeq2 = 0
  /\ docCount1 = 0
  /\ rev = 0
  /\ reqs = <<>>
  /\ guard = "none"
  /\ verified = FALSE
  /\ refSeen = FALSE
  /\ err = "none"
  /\ hist = <<>>
  /\ writes = 0
  /\ dirty = FALSE
  /\ docs0 = docs["src"]

\* Call of an engine that runs the usage guard whatever allowReplications is
CallAlwaysGuards(o) ==
  /\ pc \in Resting
  /\ Len(hist) < MaxCalls
  /\ op' = o
  /\ pc' = "guard"
  /\ guard' = "none"
  /\ verified' = FALSE
  /\ refSeen' = FALSE
  /\ reqs' = <<>>
  /\ err' = "none"
  /\ dirty' = FALSE
  /\ docs0' = IF o = "createReplica" THEN docs["src"] ELSE docs0
  /\ lastSeq1' = 0
  /\ lastSeq2' = 0
  /\ docCount1' = 0
  /\ rev' = 0
  /\ UNCHANGED <<hist, writes, configVars, sideVars, serverVars>>

\* continuum.createReplica() / continuum.replacePrimary() is called
Call(o) ==
  /\ pc \in Resting
  /\ Len(hist) < MaxCalls
  /\ op' = o
  /\ pc' = IF allowReplications THEN AfterGuard(o) ELSE "guard"
  /\ guard' = IF allowReplications THEN "skipped" ELSE "none"
  /\ verified' = FALSE
  /\ refSeen' = FALSE
  /\ reqs' = <<>>
  /\ err' = "none"
  /\ dirty' = FALSE
  /\ docs0' = IF o = "createReplica" THEN docs["src"] ELSE docs0
  /\ lastSeq1' = 0
  /\ lastSeq2' = 0
  /\ docCount1' = 0
  /\ rev' = 0
  /\ UNCHANGED <<hist, writes, configVars, sideVars, serverVars>>

\* GuardCheck called without await: the rejection of _isInUse is lost and the
\* operation goes on whatever the assertions found
GuardCheckNoAwait ==
  /\ pc = "guard"
  /\ ~legacy
  /\ refSeen' = (\E e \in AllEntries : Refs(e, "src"))
  /\ guard' = IF IsInUsePasses(AllEntries, "src") THEN "passed" ELSE "in_use"
  /\ Goto(AfterGuard(op))
  /\ UNCHANGED <<op, lastSeq1, lastSeq2, docCount1, rev, reqs, verified, writes,
                 dirty, docs0, configVars, sideVars, serverVars>>

\* _isInUse(this.source.pathname.slice(1)) on a cluster that has /_scheduler:
\* both lists are fetched and every entry is asserted on.
GuardCheck ==
  /\ pc = "guard"
  /\ ~legacy
  /\ refSeen' = (\E e \in AllEntries : Refs(e, "src"))
  /\ IF IsInUsePasses(AllEntries, "src")
       THEN guard' = "passed" /\ Goto(AfterGuard(op))
       ELSE guard' = "in_use" /\ Finish(FALSE, "in_use")
  /\ UNCHANGED <<op, lastSeq1, lastSeq2, docCount1, rev, reqs, verified, writes,
                 dirty, docs0, configVars, sideVars, serverVars>>

\* _isInUse on CouchDB 1.x: GET /_scheduler/jobs answers
\* illegal_database_name, which the catch block turns into "return null".
GuardLegacy ==
  /\ pc = "guard"
  /\ legacy
  /\ refSeen' = (\E e \in AllEntries : Refs(e, "src"))
  /\ guard' = "legacy"
  /\ Goto(AfterGuard(op))
  /\ UNCHANGED <<op, lastSeq1, lastSeq2, docCount1, rev, reqs, verified, writes,
                 dirty, docs0, configVars, sideVars, serverVars>>

\* const lastSeq1 = await this._getUpdateSeq(this.source.href)
GetSeq1 ==
  /\ pc = "seq1"
  /\ IF exists["src"]
       THEN lastSeq1' = seq["src"] /\ Goto("create_tgt")
       ELSE lastSeq1' = lastSeq1 /\ Finish(FALSE, "not_found")
  /\ UNCHANGED <<op, lastSeq2, docCount1, rev, reqs, guard, verified, refSeen,
                 writes, dirty, docs0, configVars, sideVars, serverVars>>

\* CreateTarget without the catch of _createDb: file_exists on an existing
\* replica is thrown to the caller
CreateTargetStrict ==
  /\ pc = "create_tgt"
  /\ IF exists["tgt"]
       THEN /\ UNCHANGED <<serverVars, reqs>>
            /\ Finish(FALSE, "file_exists")
       ELSE /\ PutDb("tgt")
            /\ reqs' = Append(reqs, "PUT tgt")
            /\ Goto("rep_count")
  /\ UNCHANGED <<op, lastSeq1, lastSeq2, docCount1, rev, guard, verified,
                 refSeen, writes, dirty, docs0, configVars, sideVars>>

\* await this._createDb(this.target.href)
CreateTarget ==
  /\ pc = "create_tgt"
  /\ PutDb("tgt")
  /\ reqs' = Append(reqs, "PUT tgt")
  /\ Goto("rep_count")
  /\ UNCHANGED <<op, lastSeq1, lastSeq2, docCount1, rev, guard, verified,
                 refSeen, writes, dirty, docs0, configVars, sideVars>>

\* _replicate: GET source.href; if (total === 0) return null
ReplicateCount ==
  /\ pc = "rep_count"
  /\ IF ~exists[RepFrom] THEN Finish(FALSE, "not_found")
     ELSE IF DocCount(RepFrom) = 0 THEN Goto(AfterReplicate)
     ELSE Goto("rep_post")
  /\ UNCHANGED <<op, lastSeq1, lastSeq2, docCount1, rev, reqs, guard, verified,
                 refSeen, writes, dirty, docs0, configVars, sideVars, serverVars>>

\* _replicate: POST /_replicate { source, target, selector }.  The cluster
\* registers the task (or finds nothing to copy); the copying itself is the
\* cluster's RepFind/RepWrite steps.
ReplicatePost ==
  /\ pc = "rep_post"
  /\ IF exists[RepFrom] /\ exists[RepTo]
       THEN /\ repl' = [repl EXCEPT ![RepDir] =
                         IF repl[RepDir].on \/ docs[RepFrom] \subseteq docs[RepTo]
                         THEN repl[RepDir]
                         ELSE [on |-> TRUE, pending |-> {}]]
            /\ reqs' = Append(reqs, "POST replicate")
            /\ Goto("rep_wait")
       ELSE /\ UNCHANGED <<repl, reqs>>
            /\ Finish(FALSE, "not_found")
  /\ UNCHANGED <<op, lastSeq1, lastSeq2, docCount1, rev, guard, verified,
                 refSeen, writes, dirty, docs0, configVars, sideVars, exists, docs, seq, cfg,
                 sentinel>>

\* WaitForCompletion with the test of the loop the wrong way round: it
\* sleeps when no task of the pair is behind
WaitForCompletionInverted ==
  /\ pc = "rep_wait"
  /\ IF IsUs(repl[RepDir]) THEN Goto(AfterReplicate) ELSE Goto("rep_sleep")
  /\ UNCHANGED <<op, lastSeq1, lastSeq2, docCount1, rev, reqs, guard, verified,
                 refSeen, writes, dirty, docs0, configVars, sideVars, serverVars>>

\* _waitForCompletion: GET /_active_tasks; tasks.some(isUs) ? sleep : return
WaitForCompletion ==
  /\ pc = "rep_wait"
  /\ IF IsUs(repl[RepDir]) THEN Goto("rep_sleep") ELSE Goto(AfterReplicate)
  /\ UNCHANGED <<op, lastSeq1, lastSeq2, docCount1, rev, reqs, guard, verified,
                 refSeen, writes, dirty, docs0, configVars, sideVars, serverVars>>

\* await this._sleep(1000)
Sleep ==
  /\ pc = "rep_sleep"
  /\ Goto("rep_wait")
  /\ UNCHANGED <<op, lastSeq1, lastSeq2, docCount1, rev, reqs, guard, verified,
                 refSeen, writes, dirty, docs0, configVars, sideVars, serverVars>>

\* const lastSeq2 = ...; assert(lastSeq1 <= lastSeq2, ...)
GetSeq2 ==
  /\ pc = "seq2"
  /\ IF ~exists["src"]
       THEN lastSeq2' = lastSeq2 /\ Finish(FALSE, "not_found")
       ELSE /\ lastSeq2' = seq["src"]
            /\ IF SeqAssert(lastSeq1, seq["src"])
                 THEN Goto("verify1")
                 ELSE Finish(FALSE, "changed")
  /\ UNCHANGED <<op, lastSeq1, docCount1, rev, reqs, guard, verified, refSeen,
                 writes, dirty, docs0, configVars, sideVars, serverVars>>

\* VerifySource with the URL of the replica: both counts that are compared
\* are counts of the replica
VerifySourceReadsReplica ==
  /\ pc = "verify1"
  /\ IF exists["src"]
       THEN docCount1' = DocCount("tgt") /\ Goto("verify2")
       ELSE docCount1' = docCount1 /\ Finish(FALSE, "not_found")
  /\ UNCHANGED <<op, lastSeq1, lastSeq2, rev, reqs, guard, verified, refSeen,
                 writes, dirty, docs0, configVars, sideVars, serverVars>>

\* _verifyReplica: GET this.source.href -> docCount1
VerifySource ==
  /\ pc = "verify1"
  /\ IF exists["src"]
       THEN docCount1' = DocCount("src") /\ Goto("verify2")
       ELSE docCount1' = docCount1 /\ Finish(FALSE, "not_found")
  /\ UNCHANGED <<op, lastSeq1, lastSeq2, rev, reqs, guard, verified, refSeen,
                 writes, dirty, docs0, configVars, sideVars, serverVars>>

\* VerifyTarget with the roll-back of the first versions of the tool: on a
\* mismatch the replica is destroyed before the error is thrown
VerifyTargetRollBack ==
  /\ pc = "verify2"
  /\ IF ~exists["tgt"]
       THEN verified' = FALSE /\ Finish(FALSE, "not_found") /\ UNCHANGED serverVars
       ELSE /\ verified' = (docCount1 = Cardinality(docs["tgt"]))
            /\ IF CountsEqual(docCount1, DocCount("tgt"))
                 THEN /\ IF AfterVerify = "done"
                           THEN Finish(TRUE, "none")
                           ELSE Goto(AfterVerify)
                      /\ UNCHANGED serverVars
                 ELSE DropDb("tgt") /\ Finish(FALSE, "mismatch")
  /\ UNCHANGED <<op, lastSeq1, lastSeq2, docCount1, rev, reqs, guard, refSeen,
                 writes, dirty, docs0, configVars, sideVars>>

\* VerifyTarget with the answer of a missing replica read like that of an
\* empty one: doc_count is undefined and the call does not throw
VerifyTargetMissingAsEmpty ==
  /\ pc = "verify2"
  /\ verified' = (exists["tgt"] /\ docCount1 = Cardinality(docs["tgt"]))
  /\ IF CountsEqual(docCount1, DocCount("tgt"))
       THEN IF AfterVerify = "done"
              THEN Finish(TRUE, "none")
              ELSE Goto(AfterVerify)
       ELSE Finish(FALSE, "mismatch")
  /\ UNCHANGED <<op, lastSeq1, lastSeq2, docCount1, rev, reqs, guard, refSeen,
                 writes, dirty, docs0, configVars, sideVars, serverVars>>

\* _verifyReplica: GET this.target.href -> docCount2; assert.strictEqual
VerifyTarget ==
  /\ pc = "verify2"
  /\ IF ~exists["tgt"]
       THEN verified' = FALSE /\ Finish(FALSE, "not_found")
       ELSE /\ verified' = (docCount1 = Cardinality(docs["tgt"]))
            /\ IF CountsEqual(docCount1, DocCount("tgt"))
                 THEN IF AfterVerify = "done"
                        THEN Finish(TRUE, "none")
                        ELSE Goto(AfterVerify)
                 ELSE Finish(FALSE, "mismatch")
  /\ UNCHANGED <<op, lastSeq1, lastSeq2, docCount1, rev, reqs, guard, refSeen,
                 writes, dirty, docs0, configVars, sideVars, serverVars>>

\* await this._destroyDb(this.source.href)
DestroySource ==
  /\ pc = "destroy_src"
  /\ IF exists["src"]
       THEN /\ DropDb("src")
            /\ reqs' = Append(reqs, "DELETE src")
            /\ Goto("create_src")
       ELSE /\ UNCHANGED <<serverVars, reqs>>
            /\ Finish(FALSE, "not_found")
  /\ UNCHANGED <<op, lastSeq1, lastSeq2, docCount1, rev, guard, verified,
                 refSeen, writes, dirty, docs0, configVars, sideVars>>

\* CreateSource of an engine without the settling delay: the sentinel is
\* written as soon as the PUT of the database is answered
CreateSourceNoDelay ==
  /\ pc = "create_src"
  /\ PutDb("src")
  /\ reqs' = Append(reqs, "PUT src")
  /\ Goto("unavail_get")
  /\ UNCHANGED <<op, lastSeq1, lastSeq2, docCount1, rev, guard, verified,
                 refSeen, writes, dirty, docs0, configVars, sideVars>>

\* await this._createDb(this.source.href)
CreateSource ==
  /\ pc = "create_src"
  /\ PutDb("src")
  /\ reqs' = Append(reqs, "PUT src")
  /\ Goto("settle")
  /\ UNCHANGED <<op, lastSeq1, lastSeq2, docCount1, rev, guard, verified,
                 refSeen, writes, dirty, docs0, configVars, sideVars>>

\* the settling delay: 150 ticks of a 100 ms timer, then resolve()
Settle ==
  /\ pc = "settle"
  /\ Goto("unavail_get")
  /\ UNCHANGED <<op, lastSeq1, lastSeq2, docCount1, rev, reqs, guard, verified,
                 refSeen, writes, dirty, docs0, configVars, sideVars, serverVars>>

\* _setUnavailable: GET the sentinel for its _rev; not_found (no document,
\* or no database) selects the create branch
SetUnavailableGet ==
  /\ pc = "unavail_get"
  /\ rev' = IF exists["src"] /\ sentinel["src"].st # "absent"
            THEN sentinel["src"].rev ELSE 0
  /\ Goto("unavail_put")
  /\ UNCHANGED <<op, lastSeq1, lastSeq2, docCount1, reqs, guard, verified,
                 refSeen, writes, dirty, docs0, configVars, sideVars, serverVars>>

\* the sentinel a PUT { _rev: r, down: true } leaves (r = 0: no _rev sent);
\* the PUT is accepted iff r is the current revision
PutAccepted(d, r) ==
  /\ exists[d]
  /\ IF sentinel[d].st = "absent" THEN r = 0 ELSE r = sentinel[d].rev

\* _setUnavailable: PUT { _rev: rev, down: true } or PUT { down: true }
SetUnavailablePut ==
  /\ pc = "unavail_put"
  /\ IF PutAccepted("src", rev)
       THEN /\ sentinel' = [sentinel EXCEPT !["src"] =
                              [st |-> "down", rev |-> sentinel["src"].rev + 1]]
            /\ reqs' = Append(reqs, "PUT sentinel")
            /\ Goto("rep_count")
       ELSE /\ UNCHANGED <<sentinel, reqs>>
            /\ Finish(FALSE, IF exists["src"] THEN "conflict" ELSE "not_found")
  /\ UNCHANGED <<op, lastSeq1, lastSeq2, docCount1, rev, guard, verified,
                 refSeen, writes, dirty, docs0, configVars, sideVars, exists, docs, seq, cfg,
                 repl>>

\* await this._destroyDb(this.target.href)
DestroyTarget ==
  /\ pc = "destroy_tgt"
  /\ IF exists["tgt"]
       THEN /\ DropDb("tgt")
            /\ reqs' = Append(reqs, "DELETE tgt")
            /\ Goto("avail_get")
       ELSE /\ UNCHANGED <<serverVars, reqs>>
            /\ Finish(FALSE, "not_found")
  /\ UNCHANGED <<op, lastSeq1, lastSeq2, docCount1, rev, guard, verified,
                 refSeen, writes, dirty, docs0, configVars, sideVars>>

\* _setAvailable: GET the sentinel for its _rev; not_found: return null
SetAvailableGet ==
  /\ pc = "avail_get"
  /\ IF exists["src"] /\ sentinel["src"].st # "absent"
       THEN rev' = sentinel["src"].rev /\ Goto("avail_del")
       ELSE rev' = 0 /\ Finish(TRUE, "none")
  /\ UNCHANGED <<op, lastSeq1, lastSeq2, docCount1, reqs, guard, verified,
                 refSeen, writes, dirty, docs0, configVars, sideVars, serverVars>>

\* _setAvailable: DELETE the sentinel ?rev=rev
SetAvailableDelete ==
  /\ pc = "avail_del"
  /\ IF exists["src"] /\ sentinel["src"].st # "absent" /\ sentinel["src"].rev = rev
       THEN /\ sentinel' = [sentinel EXCEPT !["src"] = NoSentinel]
            /\ reqs' = Append(reqs, "DELETE sentinel")
            /\ Finish(TRUE, "none")
       ELSE /\ UNCHANGED <<sentinel, reqs>>
            /\ Finish(FALSE, IF exists["src"] /\ sentinel["src"].st # "absent"
                              THEN "conflict" ELSE "not_found")
  /\ UNCHANGED <<op, lastSeq1, lastSeq2, docCount1, rev, guard, verified,
                 refSeen, writes, dirty, docs0, configVars, sideVars, exists, docs, seq, cfg,
                 repl>>

\* TransportFail with the rollBack() of the first versions of the tool: when
\* a request of createReplica fails, the replica it had PUT is destroyed
TransportFailRollBack ==
  /\ pc \in RequestSteps
  /\ guard' = IF pc = "guard" THEN "error" ELSE guard
  /\ Finish(FALSE, "transport")
  /\ IF op = "createReplica" /\ "PUT tgt" \in Range(reqs)
       THEN DropDb("tgt")
       ELSE UNCHANGED serverVars
  /\ UNCHANGED <<op, lastSeq1, lastSeq2, docCount1, rev, reqs, verified, refSeen,
                 writes, dirty, docs0, configVars, sideVars>>

\* request() rejects with a transport error (err from the request library):
\* the step throws and the call ends there.
TransportFail ==
  /\ pc \in RequestSteps
  /\ guard' = IF pc = "guard" THEN "error" ELSE guard
  /\ Finish(FALSE, "transport")
  /\ UNCHANGED <<op, lastSeq1, lastSeq2, docCount1, rev, reqs, verified, refSeen,
                 writes, dirty, docs0, configVars, sideVars, serverVars>>

\* ------------------------------------------------- the cluster on its own

TaskFrom(k) == IF k = "fwd" THEN "src" ELSE "tgt"
TaskTo(k) == IF k = "fwd" THEN "tgt" ELSE "src"

\* the first element of a non-empty set of document ids (the replicator
\* follows the changes feed, which lists the documents in order)
First(S) == CHOOSE d \in S : \A e \in S : d <= e

\* the revisions of the task's source that its target misses and that the
\* task has not found yet
Unfound(k) == docs[TaskFrom(k)] \ (docs[TaskTo(k)] \cup repl[k].pending)

\* the replication task finds a revision its target misses
\* (missing_revisions_found grows)
RepFind(k) ==
  /\ repl[k].on
  /\ Unfound(k) # {}
  /\ repl' = [repl EXCEPT ![k].pending = @ \cup {First(Unfound(k))}]
  /\ UNCHANGED <<engineVars, configVars, sideVars, ghostVars, exists, docs, seq, cfg,
                 sentinel>>

\* the replication task writes a revision it found (docs_written grows);
\* it leaves the task list when nothing is missing any more
RepWrite(k) ==
  /\ repl[k].on
  /\ repl[k].pending # {}
  /\ LET d == First(repl[k].pending) IN
       /\ docs' = [docs EXCEPT ![TaskTo(k)] = @ \cup {d}]
       /\ seq' = [seq EXCEPT ![TaskTo(k)] = @ + 1]
       /\ repl' = [repl EXCEPT ![k] =
                    IF docs[TaskFrom(k)] \subseteq (docs[TaskTo(k)] \cup {d})
                    THEN NoTask
                    ELSE [on |-> TRUE, pending |-> repl[k].pending \ {d}]]
  /\ UNCHANGED <<engineVars, configVars, sideVars, ghostVars, exists, cfg, sentinel>>

\* another client creates a document in the primary
ExtWrite ==
  /\ writes < MaxWrites
  /\ exists["src"]
  /\ Docs \ docs["src"] # {}
  /\ docs' = [docs EXCEPT !["src"] = @ \cup {First(Docs \ docs["src"])}]
  /\ seq' = [seq EXCEPT !["src"] = @ + 1]
  /\ writes' = writes + 1
  /\ dirty' = TRUE
  /\ UNCHANGED <<engineVars, configVars, sideVars, reqs, guard, verified, refSeen, err,
                 hist, docs0, exists, cfg, sentinel, repl>>

\* another client updates a document of the primary
ExtUpdate ==
  /\ writes < MaxWrites
  /\ exists["src"]
  /\ docs["src"] # {}
  /\ seq' = [seq EXCEPT !["src"] = @ + 1]
  /\ writes' = writes + 1
  /\ dirty' = TRUE
  /\ UNCHANGED <<engineVars, configVars, sideVars, reqs, guard, verified, refSeen, err,
                 hist, docs0, exists, docs, cfg, sentinel, repl>>

Next ==
  \/ \E o \in Ops : Call(o)
  \/ GuardCheck
  \/ GuardLegacy
  \/ GetSeq1
  \/ CreateTarget
  \/ ReplicateCount
  \/ ReplicatePost
  \/ WaitForCompletion
  \/ Sleep
  \/ GetSeq2
  \/ VerifySource
  \/ VerifyTarget
  \/ DestroySource
  \/ CreateSource
  \/ Settle
  \/ SetUnavailableGet
  \/ SetUnavailablePut
  \/ DestroyTarget
  \/ SetAvailableGet
  \/ SetAvailableDelete
  \/ TransportFail
  \/ \E k \in {"fwd", "bwd"} : RepFind(k)
  \/ \E k \in {"fwd", "bwd"} : RepWrite(k)
  \/ ExtWrite
  \/ ExtUpdate

Spec == Init /\ [][Next]_vars

\* The process that runs a call is stopped, or the call has thrown, before
\* the source was destroyed; the migration is begun again from scratch: a
\* new engine, and createReplica is called on it.
Rerun ==
  /\ ~rerun
  /\ pc \notin {"idle", "done"}
  /\ "DELETE src" \notin Range(reqs)
  /\ rerun' = TRUE
  /\ hist' = <<>>
  /\ op' = "createReplica"
  /\ pc' = IF allowReplications THEN AfterGuard("createReplica") ELSE "guard"
  /\ guard' = IF allowReplications THEN "skipped" ELSE "none"
  /\ verified' = FALSE
  /\ refSeen' = FALSE
  /\ reqs' = <<>>
  /\ err' = "none"
  /\ dirty' = FALSE
  /\ docs0' = docs["src"]
  /\ lastSeq1' = 0
  /\ lastSeq2' = 0
  /\ docCount1' = 0
  /\ rev' = 0
  /\ UNCHANGED <<writes, configVars, serverVars, staticVars, bulkVars, ctor,
                 auxVars>>

NextRerun == Next \/ Rerun

SpecRerun == Init /\ [][NextRerun]_vars

TypeOK ==
  /\ pc \in Resting \cup RequestSteps \cup {"rep_sleep", "settle"}
  /\ op \in Ops \cup {"none"}
  /\ \A d \in DbNames : docs[d] \subseteq Docs /\ (~exists[d] => docs[d] = {})
  /\ Len(hist) <= MaxCalls
  /\ writes <= MaxWrites
  /\ rerun \in BOOLEAN
  /\ \A c \in Callers :
       /\ caller[c].pc \in {"idle", "get", "put", "del", "ok", "failed"}
       /\ caller[c].calls <= MaxSetCalls
  /\ Len(checkpoint) <= 1
  /\ \A n \in BulkNames : cluster[n] \in Phases
  /\ bulk.run <= MaxRuns
  /\ migrated \subseteq BulkNames
  /\ ctor.state \in {"none", "built", "threw"}
  /\ cli.state \in {"off", "running", "returned", "threw"}
  /\ cli.at <= 6
  /\ sec.pc \in {"off", "create_tgt", "create_src", "replicate", "copy",
                 "destroy_src", "destroy_tgt", "done"}
  /\ tomb.pc \in {"off", "create", "replicate", "verify", "done", "failed"}
  /\ resp.pc \in {"off", "settled"}
  /\ poll.pc \in {"off", "count", "post", "wait", "sec_get", "sec_put",
                "returned", "threw"}
  /\ cont.pc \in {"off", "guard", "replicate", "continuous", "verify",
                "returned", "destroy_src", "create_src", "done", "failed"}

\* --------------------------------- the availability marker, called directly

StaticFns == {"setUnavailable", "setAvailable"}

\* one engine that is never called, on a primary without documents
EngineAtRest ==
  /\ pc = "idle"
  /\ op = "none"
  /\ allowReplications = FALSE
  /\ legacy = FALSE
  /\ jobs = {}
  /\ repl = [k \in {"fwd", "bwd"} |-> NoTask]
  /\ lastSeq1 = 0
  /\ lastSeq2 = 0
  /\ docCount1 = 0
  /\ rev = 0
  /\ reqs = <<>>
  /\ guard = "none"
  /\ verified = FALSE
  /\ refSeen = FALSE
  /\ err = "none"
  /\ hist = <<>>
  /\ writes = 0
  /\ dirty = FALSE
  /\ docs0 = {}
  /\ rerun = FALSE

\* the primary alone, without documents
PrimaryAlone ==
  /\ exists = [d \in DbNames |-> d = "src"]
  /\ docs = [d \in DbNames |-> {}]
  /\ seq = [d \in DbNames |-> 0]
  /\ cfg = [d \in DbNames |-> DefaultQ]

\* the sentinel of the primary is absent, { down: true } or { down: false }
InitStatic ==
  /\ EngineAtRest
  /\ PrimaryAlone
  /\ StaticAtRest
  /\ BulkAtRest
  /\ CtorAtRest
  /\ AuxAtRest
  /\ \E st \in {"absent", "down", "up"} :
       sentinel = [d \in DbNames |->
                     IF d = "src" /\ st # "absent" THEN [st |-> st, rev |-> 1]
                     ELSE NoSentinel]

\* what a call of the static functions never touches
staticFrame == <<engineVars, configVars, ghostVars, rerun, bulkVars, ctor, auxVars,
                 exists, docs, seq, cfg, repl>>

\* client c calls CouchContinuum._setUnavailable(dbUrl) or _setAvailable(dbUrl)
StaticCall(c, f) ==
  /\ caller[c].pc \in {"idle", "ok", "failed"}
  /\ caller[c].calls < MaxSetCalls
  /\ caller' = [caller EXCEPT ![c] =
                  [pc |-> "get", fn |-> f, prev |-> caller[c].fn, rev |-> 0,
                   calls |-> caller[c].calls + 1, err |-> "none"]]
  /\ UNCHANGED <<lastWrite, sentinel, staticFrame>>

\* StaticGet without the catch blocks: not_found on the GET is thrown
StaticGetNoCatch(c) ==
  /\ caller[c].pc = "get"
  /\ IF exists["src"] /\ sentinel["src"].st # "absent"
       THEN caller' = [caller EXCEPT
                        ![c].rev = sentinel["src"].rev,
                        ![c].pc = IF caller[c].fn = "setUnavailable"
                                  THEN "put" ELSE "del"]
       ELSE caller' = [caller EXCEPT ![c].pc = "failed",
                                     ![c].err = "not_found"]
  /\ UNCHANGED <<lastWrite, sentinel, staticFrame>>

\* const { _rev: rev } = await request({ url, json: true }).  not_found
\* selects the create branch of _setUnavailable and "return null" of
\* _setAvailable.
StaticGet(c) ==
  /\ caller[c].pc = "get"
  /\ LET found == exists["src"] /\ sentinel["src"].st # "absent"
         r == IF found THEN sentinel["src"].rev ELSE 0
         p == IF caller[c].fn = "setUnavailable" THEN "put"
              ELSE IF found THEN "del" ELSE "ok"
     IN caller' = [caller EXCEPT ![c].rev = r, ![c].pc = p]
  /\ UNCHANGED <<lastWrite, sentinel, staticFrame>>

\* _setUnavailable: PUT { _rev: rev, down: true }, or PUT { down: true }
\* from the catch block; the answer of the PUT is what the caller gets
StaticPut(c) ==
  /\ caller[c].pc = "put"
  /\ IF PutAccepted("src", caller[c].rev)
       THEN /\ sentinel' = [sentinel EXCEPT !["src"] =
                              [st |-> "down", rev |-> sentinel["src"].rev + 1]]
            /\ lastWrite' = "setUnavailable"
            /\ caller' = [caller EXCEPT ![c].pc = "ok"]
       ELSE /\ UNCHANGED <<sentinel, lastWrite>>
            /\ caller' = [caller EXCEPT ![c].pc = "failed",
                                        ![c].err = "conflict"]
  /\ UNCHANGED staticFrame

\* _setAvailable: return request({ url, qs: { rev }, method: 'DELETE' }); the
\* request is returned, not awaited, so the catch block never sees its error
StaticDelete(c) ==
  /\ caller[c].pc = "del"
  /\ IF sentinel["src"].st # "absent" /\ sentinel["src"].rev = caller[c].rev
       THEN /\ sentinel' = [sentinel EXCEPT !["src"] = NoSentinel]
            /\ lastWrite' = "setAvailable"
            /\ caller' = [caller EXCEPT ![c].pc = "ok"]
       ELSE /\ UNCHANGED <<sentinel, lastWrite>>
            /\ caller' = [caller EXCEPT
                            ![c].pc = "failed",
                            ![c].err = IF sentinel["src"].st = "absent"
                                       THEN "not_found" ELSE "conflict"]
  /\ UNCHANGED staticFrame

NextStatic ==
  \/ \E c \in Callers, f \in StaticFns : StaticCall(c, f)
  \/ \E c \in Callers : StaticGet(c)
  \/ \E c \in Callers : StaticPut(c)
  \/ \E c \in Callers : StaticDelete(c)

SpecStatic == InitStatic /\ [][NextStatic]_vars

\* ------------------------------------------------------ the checkpoint

\* Buffer.from(s, 'utf-8'): the bytes writeFile stores for a string without
\* surrogate pairs (a lone surrogate is written as U+FFFD)
Utf8Unit(c) ==
  IF c < 128 THEN <<c>>
  ELSE IF c < 2048 THEN <<192 + (c \div 64), 128 + (c % 64)>>
  ELSE IF c >= 55296 /\ c <= 57343 THEN <<239, 191, 189>>
  ELSE <<224 + (c \div 4096), 128 + ((c \div 64) % 64), 128 + (c % 64)>>

RECURSIVE Utf8(_)
Utf8(s) == IF s = <<>> THEN <<>> ELSE Utf8Unit(Head(s)) \o Utf8(Tail(s))

\* buffer.toString('utf-8'): the string readFile returns for well-formed
\* sequences of one, two and three bytes
RECURSIVE FromUtf8(_)
FromUtf8(b) ==
  IF b = <<>> THEN <<>>
  ELSE IF b[1] < 128 THEN <<b[1]>> \o FromUtf8(Tail(b))
  ELSE IF b[1] < 224
    THEN <<(b[1] - 192) * 64 + (b[2] - 128)>> \o FromUtf8(SubSeq(b, 3, Len(b)))
  ELSE <<(b[1] - 224) * 4096 + (b[2] - 128) * 64 + (b[3] - 128)>>
         \o FromUtf8(SubSeq(b, 4, Len(b)))

\* StrGt with >= written for >: equal strings compare greater too
StrGtOrEqual(a, b) ==
  \/ a = b
  \/ \E i \in 1..Len(a) :
       /\ \A j \in 1..(i - 1) : j <= Len(b) /\ a[j] = b[j]
       /\ (i > Len(b) \/ a[i] > b[i])

\* a > b on two strings: the first differing code unit decides, a proper
\* prefix is smaller
StrGt(a, b) ==
  \E i \in 1..Len(a) :
    /\ \A j \in 1..(i - 1) : j <= Len(b) /\ a[j] = b[j]
    /\ (i > Len(b) \/ a[i] > b[i])

\* s.indexOf(sub) > -1
Contains(s, sub) ==
  \E i \in 0..(Len(s) - Len(sub)) : SubSeq(s, i + 1, i + Len(sub)) = sub

\* the characters encodeURIComponent leaves alone: A-Z a-z 0-9 - _ . ! ~ * ' ( )
Unreserved(c) ==
  \/ (c >= 65 /\ c <= 90) \/ (c >= 97 /\ c <= 122) \/ (c >= 48 /\ c <= 57)
  \/ c \in {45, 95, 46, 33, 126, 42, 39, 40, 41}

HexDigit(n) == IF n < 10 THEN 48 + n ELSE 55 + n

RECURSIVE PercentEncode(_)
PercentEncode(b) ==
  IF b = <<>> THEN <<>>
  ELSE (IF Unreserved(b[1]) THEN <<b[1]>>
        ELSE <<37, HexDigit(b[1] \div 16), HexDigit(b[1] % 16)>>)
       \o PercentEncode(Tail(b))

\* encodeURIComponent(source)
EncodeURIComponent(s) == PercentEncode(Utf8(s))

\* continuum.source.pathname.slice(1) of an engine constructed with the bare
\* name n: the URL keeps the escapes encodeURIComponent wrote
PathName(n) == EncodeURIComponent(n)

\* getCheckpoint: the contents of the file, '\u0000' on ENOENT
GetCheckpoint(file) == IF file = <<>> THEN <<0>> ELSE FromUtf8(file[1])

\* WriteCheckpoint with a line feed written after the name
WriteCheckpointLine(k) == <<Utf8(k \o <<10>>)>>

\* writeFile(checkpoint, dbName, 'utf-8')
WriteCheckpoint(k) == <<Utf8(k)>>

\* the databases of the cluster as GET /_all_dbs lists them, in the order of
\* their names
DbSet(cl) ==
  {NameUsers}
    \cup {n \in BulkNames : cl[n] \in {"src", "src+copy", "new+copy"}}
    \cup {TempCopy \o n : n \in {m \in BulkNames :
                                   cl[m] \in {"src+copy", "copy", "new+copy"}}}

RECURSIVE Sorted(_)
Sorted(S) ==
  IF S = {} THEN <<>>
  ELSE LET m == CHOOSE x \in S : \A y \in S \ {x} : StrGt(y, x)
       IN <<m>> \o Sorted(S \ {m})

AllDbsRaw(cl) == Sorted(DbSet(cl))

\* allDbs: neither special nor a replica
IsListed(dbName) == ~(dbName[1] = 95) /\ ~Contains(dbName, TempCopy)

AllDbs(raw) == SelectSeq(raw, IsListed)

\* getRemaining: dbNames.filter((dbName) => dbName > lastDb)
GetRemaining(raw, file) ==
  LET lastDb == GetCheckpoint(file)
      After(dbName) == StrGt(dbName, lastDb)
  IN SelectSeq(AllDbs(raw), After)

\* what neither the checkpoint functions nor a bulk run touch
bulkFrame == <<engineVars, configVars, serverVars, ghostVars, rerun,
               staticVars, ctor, auxVars>>

\* the keys the checkpoint functions are called with: database names, the
\* path name of "a/b", and the '\uffff' of the test suite
Keys == BulkNames \cup {PathName(NameAB), <<65535>>}

\* a cluster with any of the databases, some with a replica, and no
\* checkpoint file
InitCheckpoint ==
  /\ EngineAtRest
  /\ PrimaryAlone
  /\ sentinel = [d \in DbNames |-> NoSentinel]
  /\ StaticAtRest
  /\ CtorAtRest
  /\ AuxAtRest
  /\ checkpoint = <<>>
  /\ cluster \in [BulkNames -> {"none", "src", "src+copy"}]
  /\ bulk = BulkOff
  /\ migrated = {}
  /\ got = NothingGot

\* await CouchContinuum.makeCheckpoint(k)
MakeCheckpoint(k) ==
  /\ checkpoint' = WriteCheckpoint(k)
  /\ got' = [fn |-> "makeCheckpoint", value |-> <<>>, last |-> <<k>>]
  /\ UNCHANGED <<cluster, bulk, migrated, bulkFrame>>

\* await CouchContinuum.removeCheckpoint(): unlink, ENOENT swallowed
RemoveCheckpoint ==
  /\ checkpoint' = <<>>
  /\ got' = [fn |-> "removeCheckpoint", value |-> <<>>, last |-> <<>>]
  /\ UNCHANGED <<cluster, bulk, migrated, bulkFrame>>

\* checkpoint = await CouchContinuum.getCheckpoint()
CallGetCheckpoint ==
  /\ got' = [got EXCEPT !.fn = "getCheckpoint",
                        !.value = GetCheckpoint(checkpoint)]
  /\ UNCHANGED <<checkpoint, cluster, bulk, migrated, bulkFrame>>

\* await CouchContinuum.getRemaining(couchUrl)
CallGetRemaining ==
  /\ got' = [got EXCEPT !.fn = "getRemaining",
                        !.value = GetRemaining(AllDbsRaw(cluster), checkpoint)]
  /\ UNCHANGED <<checkpoint, cluster, bulk, migrated, bulkFrame>>

NextCheckpoint ==
  \/ \E k \in Keys : MakeCheckpoint(k)
  \/ RemoveCheckpoint
  \/ CallGetCheckpoint
  \/ CallGetRemaining

SpecCheckpoint == InitCheckpoint /\ [][NextCheckpoint]_vars

\* -------------------------------------------------------- the bulk run

\* a cluster with any of the three databases, none migrated, and no
\* checkpoint file
InitBulk ==
  /\ EngineAtRest
  /\ PrimaryAlone
  /\ sentinel = [d \in DbNames |-> NoSentinel]
  /\ StaticAtRest
  /\ CtorAtRest
  /\ AuxAtRest
  /\ checkpoint = <<>>
  /\ cluster \in [BulkNames -> {"none", "src"}]
  /\ bulk = BulkOff
  /\ migrated = {}
  /\ got = NothingGot

\* the engine the loops of createReplicas / replacePrimaries are at
Cur == bulk.list[bulk.i]

\* the loop goes on with the next engine, or leaves for step p
NextEngine(p) ==
  IF bulk.i < Len(bulk.list)
    THEN [bulk EXCEPT !.i = bulk.i + 1, !.pc = IF p = "consent" THEN "replicas"
                                              ELSE "destroy"]
    ELSE [bulk EXCEPT !.i = 1, !.pc = p]

\* migrate-all: const dbNames = await CouchContinuum.getRemaining(couchUrl)
MigrateAll ==
  /\ bulk.pc \in {"off", "failed"}
  /\ bulk.run < MaxRuns
  /\ LET dbNames == GetRemaining(AllDbsRaw(cluster), checkpoint) IN
       bulk' = [pc |-> "started", list |-> dbNames, i |-> 1,
                run |-> bulk.run + 1,
                first |-> IF bulk.run = 0 THEN Range(dbNames) ELSE bulk.first]
  /\ UNCHANGED <<checkpoint, cluster, migrated, got, bulkFrame>>

\* if (!dbNames.length) return; else one engine per name, createReplicas
BulkBegin ==
  /\ bulk.pc = "started"
  /\ bulk' = [bulk EXCEPT !.pc = IF bulk.list = <<>> THEN "done"
                                 ELSE "replicas"]
  /\ UNCHANGED <<checkpoint, cluster, migrated, got, bulkFrame>>

\* BulkCreateReplica with the checkpoint written in createReplicas too
BulkCreateReplicaCheckpoints ==
  /\ bulk.pc = "replicas"
  /\ cluster[Cur] \in {"src", "src+copy"}
  /\ cluster' = [cluster EXCEPT ![Cur] = "src+copy"]
  /\ checkpoint' = WriteCheckpoint(PathName(Cur))
  /\ bulk' = NextEngine("consent")
  /\ UNCHANGED <<migrated, got, bulkFrame>>

\* createReplicas: await continuum.createReplica() returns
BulkCreateReplica ==
  /\ bulk.pc = "replicas"
  /\ cluster[Cur] \in {"src", "src+copy"}
  /\ cluster' = [cluster EXCEPT ![Cur] = "src+copy"]
  /\ bulk' = NextEngine("consent")
  /\ UNCHANGED <<checkpoint, migrated, got, bulkFrame>>

\* getConsent: y goes on to replacePrimaries, anything else returns
Consent ==
  /\ bulk.pc = "consent"
  /\ \E consent \in BOOLEAN :
       bulk' = [bulk EXCEPT !.pc = IF consent THEN "destroy" ELSE "done"]
  /\ UNCHANGED <<checkpoint, cluster, migrated, got, bulkFrame>>

\* replacePrimary: guard and verification pass, the source is destroyed
ReplaceDestroy ==
  /\ bulk.pc = "destroy"
  /\ cluster[Cur] = "src+copy"
  /\ cluster' = [cluster EXCEPT ![Cur] = "copy"]
  /\ bulk' = [bulk EXCEPT !.pc = "recreate"]
  /\ UNCHANGED <<checkpoint, migrated, got, bulkFrame>>

\* replacePrimary: the source is recreated
ReplaceRecreate ==
  /\ bulk.pc = "recreate"
  /\ cluster' = [cluster EXCEPT ![Cur] = "new+copy"]
  /\ bulk' = [bulk EXCEPT !.pc = "restore"]
  /\ UNCHANGED <<checkpoint, migrated, got, bulkFrame>>

\* replacePrimary: replicated back, replica destroyed, source available;
\* await continuum.replacePrimary() returns
ReplaceRestore ==
  /\ bulk.pc = "restore"
  /\ cluster' = [cluster EXCEPT ![Cur] = "src"]
  /\ migrated' = migrated \cup {Cur}
  /\ bulk' = [bulk EXCEPT !.pc = "checkpoint"]
  /\ UNCHANGED <<checkpoint, got, bulkFrame>>

\* await CouchContinuum.makeCheckpoint(continuum.source.pathname.slice(1))
BulkCheckpoint ==
  /\ bulk.pc = "checkpoint"
  /\ checkpoint' = WriteCheckpoint(PathName(Cur))
  /\ bulk' = NextEngine("remove")
  /\ UNCHANGED <<cluster, migrated, got, bulkFrame>>

\* await CouchContinuum.removeCheckpoint(), at the end of replacePrimaries
\* and once more in the handler
BulkRemove ==
  /\ bulk.pc \in {"remove", "remove_again"}
  /\ checkpoint' = <<>>
  /\ bulk' = [bulk EXCEPT !.pc = IF bulk.pc = "remove" THEN "remove_again"
                                 ELSE "done"]
  /\ UNCHANGED <<cluster, migrated, got, bulkFrame>>

\* BulkFail of loops that catch the error of an engine and go on with
\* the next one
BulkFailGoesOn ==
  /\ bulk.pc \in {"replicas", "destroy", "recreate", "restore"}
  /\ bulk' = NextEngine(IF bulk.pc = "replicas" THEN "consent" ELSE "remove")
  /\ UNCHANGED <<checkpoint, cluster, migrated, got, bulkFrame>>

\* a step of createReplica or replacePrimary throws: the loop and the
\* handler end with that error
BulkFail ==
  /\ bulk.pc \in {"replicas", "destroy", "recreate", "restore"}
  /\ bulk' = [bulk EXCEPT !.pc = "failed"]
  /\ UNCHANGED <<checkpoint, cluster, migrated, got, bulkFrame>>

\* the process is stopped between two requests
Interrupt ==
  /\ bulk.pc \notin {"off", "done", "failed"}
  /\ bulk' = [bulk EXCEPT !.pc = "off"]
  /\ UNCHANGED <<checkpoint, cluster, migrated, got, bulkFrame>>

NextBulk ==
  \/ MigrateAll
  \/ BulkBegin
  \/ BulkCreateReplica
  \/ Consent
  \/ ReplaceDestroy
  \/ ReplaceRecreate
  \/ ReplaceRestore
  \/ BulkCheckpoint
  \/ BulkRemove
  \/ BulkFail
  \/ Interrupt

SpecBulk == InitBulk /\ [][NextBulk]_vars

\* ------------------------------------------------------ the constructor

\* the clusters a URL can name (host and port)
Hosts == {"localhost:5984", "localhost:5985"}

CtorNames == {NameA, NameAB, TempCopy \o NameA}

\* what can be passed as source or target: nothing, a bare database name,
\* the URL of a database
Args ==
  {NoArg}
    \cup {[kind |-> "bare", host |-> "", path |-> n] : n \in CtorNames}
    \cup {[kind |-> "url", host |-> h, path |-> PathName(n)] :
            h \in Hosts, n \in CtorNames}

\* if (parsed.host) parsed else urlParse(`${this.url.href}${encodeURIComponent(x)}`)
Resolve(couchUrl, arg) ==
  IF arg.kind = "url" THEN [host |-> arg.host, path |-> arg.path]
  ELSE [host |-> couchUrl, path |-> EncodeURIComponent(arg.path)]

\* a default target named as the help text of --target has it,
\* {source}_temp_copy
DefaultTargetSuffixed(source) ==
  [host |-> source.host,
   path |-> source.path \o <<95, 116, 101, 109, 112, 95, 99, 111, 112, 121>>]

\* tmpTarget.pathname = `${TEMP_COPY_SUFFIX}${tmpTargetNoLeadingSlash}`
DefaultTarget(source) == [host |-> source.host, path |-> TempCopy \o source.path]

InitCtor ==
  /\ EngineAtRest
  /\ PrimaryAlone
  /\ sentinel = [d \in DbNames |-> NoSentinel]
  /\ StaticAtRest
  /\ BulkAtRest
  /\ CtorAtRest
  /\ AuxAtRest

\* new CouchContinuum({ couchUrl, source, target, ... })
Construct(couchUrl, sourceArg, targetArg) ==
  /\ ctor' =
       IF couchUrl = "" \/ sourceArg.kind = "none"
         THEN [NoCtor EXCEPT !.state = "threw", !.couchUrl = couchUrl,
                             !.sourceArg = sourceArg, !.targetArg = targetArg]
         ELSE LET src == Resolve(couchUrl, sourceArg) IN
              [state |-> "built", couchUrl |-> couchUrl,
               sourceArg |-> sourceArg, targetArg |-> targetArg,
               source |-> src,
               target |-> IF targetArg.kind # "none"
                          THEN Resolve(couchUrl, targetArg)
                          ELSE DefaultTarget(src)]
  /\ UNCHANGED <<engineVars, configVars, serverVars, ghostVars, rerun,
                 staticVars, bulkVars, auxVars>>

NextCtor ==
  \E couchUrl \in Hosts \cup {""}, sourceArg \in Args, targetArg \in Args :
    Construct(couchUrl, sourceArg, targetArg)

SpecCtor == InitCtor /\ [][NextCtor]_vars

\* ------------------------------------------------------- the command line

\* everything of the engine, the cluster and the static functions
mainVars == <<engineVars, configVars, serverVars, ghostVars, rerun,
              staticVars, bulkVars, ctor>>

\* no engine, no static function and no command is running
AllAtRest ==
  /\ EngineAtRest
  /\ PrimaryAlone
  /\ sentinel = [d \in DbNames |-> NoSentinel]
  /\ StaticAtRest
  /\ BulkAtRest
  /\ CtorAtRest
  /\ AuxAtRest

\* what the user types at the prompt
Answers == {"y", "Y", "yes", "n", "N", ""}

\* a consent that any answer but the empty one gives
IsConsentNotEmpty(answer) == answer # ""

\* const consent = answer.match(/^y$/i)
IsConsent(answer) == answer \in {"y", "Y"}

\* the calls a handler awaits, in the order of its code
Script(cmd) ==
  CASE cmd = "start" ->
         <<"createReplica", "getConsent", "replacePrimary",
           "createReplica", "getConsent", "replacePrimary">>
    [] cmd = "create-replica" -> <<"createReplica", "createReplica">>
    [] cmd = "replace-primary" -> <<"getConsent", "replacePrimary">>
    [] cmd = "migrate-all" ->
         <<"getRemaining", "createReplicas", "getConsent",
           "replacePrimaries", "removeCheckpoint">>

\* the handler goes on after an awaited call: to its next call if it has
\* one and does not return early, to its end otherwise
CliAfter(event, goesOn) ==
  [cli EXCEPT !.trace = Append(@, event),
              !.state = IF goesOn /\ cli.at < Len(Script(cli.cmd))
                        THEN "running" ELSE "returned",
              !.at = IF goesOn /\ cli.at < Len(Script(cli.cmd))
                     THEN @ + 1 ELSE @]

\* the errors a call can throw: three that .fail() knows, and any other
CliErrors == {"not_found", "unauthorized", "EACCES", "other"}

\* .fail((msg, error, yargs) => { ... }): what it prints for an error
FailMessage(error) ==
  CASE error = "not_found" ->
         "Primary database does not exist. There is nothing to migrate."
    [] error = "unauthorized" ->
         "Could not authenticate with CouchDB. Are the credentials correct?"
    [] error = "EACCES" ->
         "Could not access the checkpoint document. Are you running as a different user?"
    [] OTHER -> "Unexpected error. Please report this so we can fix it!"

\* yargs runs the handler of the command the user gave
CliRun(cmd) ==
  /\ cli.state = "off"
  /\ cli' = [cmd |-> cmd, state |-> "running", at |-> 1, trace |-> <<>>,
             out |-> ""]
  /\ UNCHANGED <<mainVars, sec, tomb, resp, poll, cont>>

\* await continuum.createReplica(), replacePrimary(), ... : the call returns
\* or throws an error that .fail() reports; getRemaining returns a list that
\* is empty or not
CliAwait ==
  /\ cli.state = "running"
  /\ Script(cli.cmd)[cli.at] # "getConsent"
  /\ \E value \in {"", "no names", "names"} \cup CliErrors :
       LET step == Script(cli.cmd)[cli.at]
           ok == value \notin CliErrors
           event == [step |-> step, value |-> value, ok |-> ok]
       IN /\ (value \in {"no names", "names"}) <=> (step = "getRemaining" /\ ok)
          /\ cli' = IF ok THEN CliAfter(event, value # "no names")
                    ELSE [cli EXCEPT !.trace = Append(@, event),
                                     !.state = "threw",
                                     !.out = FailMessage(value)]
  /\ UNCHANGED <<mainVars, sec, tomb, resp, poll, cont>>

\* const consent = await getConsent(); if (!consent) return log(...)
CliGetConsent ==
  /\ cli.state = "running"
  /\ Script(cli.cmd)[cli.at] = "getConsent"
  /\ \E answer \in Answers :
       cli' = CliAfter([step |-> "getConsent", value |-> answer,
                        ok |-> IsConsent(answer)],
                       IsConsent(answer))
  /\ UNCHANGED <<mainVars, sec, tomb, resp, poll, cont>>

NextCli ==
  \/ \E cmd \in {"start", "create-replica", "replace-primary", "migrate-all"} :
       CliRun(cmd)
  \/ CliAwait
  \/ CliGetConsent

SpecCli == AllAtRest /\ [][NextCli]_vars

\* ------------------------------------------------- the _security objects

\* the _security object of a database: the empty one that a new database
\* has, or one that an administrator has put
SecObjs == {"{}", "members: hello", "admins: world"}

\* the source and the target that _replicate is called with in createReplica
\* ("fwd": the primary to the replica) and in replacePrimary ("bwd")
SecFrom(dir) == IF dir = "fwd" THEN "src" ELSE "tgt"
SecTo(dir) == IF dir = "fwd" THEN "tgt" ELSE "src"

\* _replicate returns to createReplica or to replacePrimary
SecReturn ==
  [sec EXCEPT !.pc = IF sec.dir = "fwd" THEN "destroy_src" ELSE "destroy_tgt"]

\* a migration of a primary with `total` documents and the _security object
\* srcSec, with replicateSecurity = flag; tgtSec is the object of a replica
\* that exists already, or "none"; orig keeps the object the primary had
\* before the migration
SecurityRun(flag, total, srcSec, tgtSec) ==
  /\ sec.pc = "off"
  /\ sec' = [pc |-> "create_tgt", flag |-> flag, dir |-> "fwd",
             obj |-> [d \in DbNames |-> IF d = "src" THEN srcSec ELSE tgtSec],
             count |-> [d \in DbNames |-> IF d = "src" THEN total ELSE 0],
             s0 |-> srcSec, orig |-> srcSec]
  /\ UNCHANGED <<mainVars, cli, tomb, resp, poll, cont>>

\* _createDb(this.target) in createReplica, _createDb(this.source) in
\* replacePrimary: a database that is created has the empty _security
\* object, file_exists leaves the one that is there; _replicate is called
SecCreateDb ==
  /\ sec.pc \in {"create_tgt", "create_src"}
  /\ LET d == IF sec.pc = "create_tgt" THEN "tgt" ELSE "src"
         dir == IF sec.pc = "create_tgt" THEN "fwd" ELSE "bwd"
         obj == IF sec.obj[d] = "none" THEN [sec.obj EXCEPT ![d] = "{}"]
                ELSE sec.obj
     IN sec' = [sec EXCEPT !.pc = "replicate", !.dir = dir, !.obj = obj,
                           !.s0 = obj[SecFrom(dir)]]
  /\ UNCHANGED <<mainVars, cli, tomb, resp, poll, cont>>

\* _replicate(source, target): if (total === 0) return null; otherwise the
\* documents are replicated, and with replicateSecurity the copy follows
SecReplicate ==
  /\ sec.pc = "replicate"
  /\ LET total == sec.count[SecFrom(sec.dir)] IN
     sec' = IF total = 0 THEN SecReturn
            ELSE IF sec.flag
              THEN [sec EXCEPT !.pc = "copy", !.count[SecTo(sec.dir)] = total]
              ELSE [SecReturn EXCEPT !.count[SecTo(sec.dir)] = total]
  /\ UNCHANGED <<mainVars, cli, tomb, resp, poll, cont>>

\* GET `${this.source.href}/_security`, PUT `${this.target.href}/_security`
SecCopy ==
  /\ sec.pc = "copy"
  /\ sec' = [SecReturn EXCEPT !.obj["tgt"] = sec.obj["src"]]
  /\ UNCHANGED <<mainVars, cli, tomb, resp, poll, cont>>

\* _destroyDb(this.source), _destroyDb(this.target) in replacePrimary
SecDestroyDb ==
  /\ sec.pc \in {"destroy_src", "destroy_tgt"}
  /\ sec' = IF sec.pc = "destroy_src"
            THEN [sec EXCEPT !.pc = "create_src", !.obj["src"] = "none",
                             !.count["src"] = 0]
            ELSE [sec EXCEPT !.pc = "done", !.obj["tgt"] = "none",
                             !.count["tgt"] = 0]
  /\ UNCHANGED <<mainVars, cli, tomb, resp, poll, cont>>

NextSecurity ==
  \/ \E flag \in BOOLEAN, total \in 0..MaxDocs, srcSec \in SecObjs,
        tgtSec \in SecObjs \cup {"none"} :
       SecurityRun(flag, total, srcSec, tgtSec)
  \/ SecCreateDb
  \/ SecReplicate
  \/ SecCopy
  \/ SecDestroyDb

SpecSecurity == AllAtRest /\ [][NextSecurity]_vars

\* ---------------------------------------------------------- tombstones

\* what a database holds of a document: nothing, the document, or the
\* tombstone that deleting it leaves; each is a later revision than the
\* one before
DocStates == {"absent", "live", "deleted"}
Revision(st) == CASE st = "absent" -> 0 [] st = "live" -> 1 [] st = "deleted" -> 2

\* doc_count: the documents that are not deleted
LiveCount(db) == Cardinality({d \in Docs : db[d] = "live"})

\* a replication without a selector, which every revision matches
MatchesAny(filter, st) == st # "absent"

\* const selector = this.filterTombstones ? { _deleted: { $exists: false } }
\*                                        : undefined
Matches(filter, st) == st # "absent" /\ (filter => st # "deleted")

\* createReplica() with filterTombstones = filter on a primary holding src;
\* the replica either does not exist or holds tgt, revisions that an
\* earlier replication has left
TombRun(filter, src, tgt, existed) ==
  /\ tomb.pc = "off"
  /\ \A d \in Docs : Revision(tgt[d]) <= Revision(src[d])
  /\ ~existed => \A d \in Docs : tgt[d] = "absent"
  /\ tomb' = [pc |-> "create", filter |-> filter, src |-> src, tgt |-> tgt,
              tgt0 |-> tgt]
  /\ UNCHANGED <<mainVars, cli, sec, resp, poll, cont>>

\* await this._createDb(this.target)
TombCreateDb ==
  /\ tomb.pc = "create"
  /\ tomb' = [tomb EXCEPT !.pc = "replicate"]
  /\ UNCHANGED <<mainVars, cli, sec, resp, poll, cont>>

\* await this._replicate(this.source, this.target, selector): nothing if
\* doc_count is 0; otherwise the replicator writes to the target every
\* revision of the source that matches the selector and is newer
TombReplicate ==
  /\ tomb.pc = "replicate"
  /\ tomb' =
       [tomb EXCEPT
          !.pc = "verify",
          !.tgt = IF LiveCount(tomb.src) = 0 THEN @
                  ELSE [d \in Docs |->
                          IF /\ Matches(tomb.filter, tomb.src[d])
                             /\ Revision(tomb.src[d]) > Revision(@[d])
                          THEN tomb.src[d] ELSE @[d]]]
  /\ UNCHANGED <<mainVars, cli, sec, resp, poll, cont>>

\* await this._verifyReplica(): assert.strictEqual(docCount1, docCount2)
TombVerify ==
  /\ tomb.pc = "verify"
  /\ tomb' = [tomb EXCEPT !.pc = IF LiveCount(tomb.src) = LiveCount(tomb.tgt)
                                 THEN "done" ELSE "failed"]
  /\ UNCHANGED <<mainVars, cli, sec, resp, poll, cont>>

NextTombstones ==
  \/ \E filter \in BOOLEAN, existed \in BOOLEAN,
        src \in [Docs -> DocStates], tgt \in [Docs -> DocStates] :
       TombRun(filter, src, tgt, existed)
  \/ TombCreateDb
  \/ TombReplicate
  \/ TombVerify

SpecTombstones == AllAtRest /\ [][NextTombstones]_vars

\* ------------------------------------------------------- the transport

\* the response bodies: text that JSON.parse accepts or not, and in the
\* first case with an "error" member or without one ("")
Bodies ==
  {[parses |-> TRUE, error |-> e] :
     e \in {"", "not_found", "file_exists", "conflict"}}
    \cup {[parses |-> FALSE, error |-> ""]}

\* the callback of request(options, (err, res, body) => { ... }): what the
\* promise of the transport is settled with. With options.json the library
\* has parsed a body that parses, every other body is a string; JSON.parse
\* throws in the callback on a string that does not parse.
RequestOutcome(options, net, statusCode, body) ==
  IF net # "" THEN [kind |-> "rejected", with |-> "err", code |-> net]
  ELSE IF statusCode >= 400
    THEN IF ~body.parses
      THEN [kind |-> "uncaught", with |-> "SyntaxError", code |-> ""]
      ELSE [kind |-> "rejected", with |-> "Error", message |-> body,
            options |-> options, error |-> body.error]
    ELSE [kind |-> "resolved",
          with |-> IF options.json /\ body.parses THEN "object" ELSE "string",
          body |-> body]

\* request(options): one request and the response or the network error
\* that the library hands to the callback
Request(options, net, statusCode, body) ==
  /\ resp.pc \in {"off", "settled"}
  /\ net # "" => (statusCode = 0 /\ body = [parses |-> FALSE, error |-> ""])
  /\ net = "" => statusCode # 0
  /\ resp' = [pc |-> "settled", options |-> options, net |-> net,
              statusCode |-> statusCode, body |-> body,
              outcome |-> RequestOutcome(options, net, statusCode, body)]
  /\ UNCHANGED <<mainVars, cli, sec, tomb, poll, cont>>

NextTransport ==
  \E method \in {"GET", "PUT", "POST", "DELETE"}, json \in BOOLEAN,
     net \in {"", "ECONNREFUSED", "ETIMEDOUT"},
     statusCode \in {0, 200, 201, 202, 400, 401, 404, 409, 412, 500},
     body \in Bodies :
    Request([method |-> method, json |-> json], net, statusCode, body)

SpecTransport == AllAtRest /\ [][NextTransport]_vars

\* ------------------------------------------------ _replicate on its own

\* the engine as it enters _replicate: in createReplica with a replica that
\* holds none or some of the documents of the primary, in replacePrimary
\* with the recreated primary, empty and marked as down; a task of the pair
\* that an earlier call has left may be listed
InitWait ==
  /\ StaticAtRest
  /\ BulkAtRest
  /\ CtorAtRest
  /\ AuxAtRest
  /\ rerun = FALSE
  /\ pc = "rep_count"
  /\ op \in Ops
  /\ allowReplications = TRUE
  /\ legacy = FALSE
  /\ jobs = {}
  /\ \E n \in 0..MaxDocs, m \in 0..MaxDocs :
       /\ m <= n
       /\ op = "replacePrimary" => m = 0
       /\ exists = [d \in DbNames |-> TRUE]
       /\ docs = [d \in DbNames |-> IF d = RepFrom THEN 1..n ELSE 1..m]
       /\ seq = [d \in DbNames |-> IF d = RepFrom THEN n ELSE m]
       /\ docs0 = 1..n
  /\ cfg = [d \in DbNames |-> IF d = "src" /\ op = "createReplica"
                               THEN DefaultQ ELSE CreateQ(EngineQ)]
  /\ sentinel = [d \in DbNames |->
                   IF d = "src" /\ op = "replacePrimary"
                   THEN [st |-> "down", rev |-> 1] ELSE NoSentinel]
  /\ \E on \in BOOLEAN :
       repl = [k \in {"fwd", "bwd"} |->
                 IF k = RepDir /\ on /\ docs[RepFrom] # docs[RepTo]
                 THEN [on |-> TRUE, pending |-> {}] ELSE NoTask]
  /\ lastSeq1 = IF op = "createReplica" THEN seq["src"] ELSE 0
  /\ lastSeq2 = 0
  /\ docCount1 = IF op = "replacePrimary" THEN DocCount("tgt") ELSE 0
  /\ rev = 0
  /\ reqs = IF op = "createReplica" THEN <<>>
            ELSE <<"DELETE src", "PUT src", "PUT sentinel">>
  /\ guard = "skipped"
  /\ verified = (op = "replacePrimary")
  /\ refSeen = FALSE
  /\ err = "none"
  /\ hist = <<>>
  /\ writes = 0
  /\ dirty = FALSE

\* the requests of _replicate, the replication tasks and the other clients
NextWait ==
  \/ ReplicateCount
  \/ ReplicatePost
  \/ WaitForCompletion
  \/ Sleep
  \/ (pc \in {"rep_count", "rep_post", "rep_wait"} /\ TransportFail)
  \/ \E k \in {"fwd", "bwd"} : RepFind(k)
  \/ \E k \in {"fwd", "bwd"} : RepWrite(k)
  \/ ExtWrite

\* every request is answered and every timer fires; a replication task
\* that has something to find or to write does so
FairWait ==
  /\ WF_vars(ReplicateCount \/ ReplicatePost \/ WaitForCompletion \/ Sleep)
  /\ \A k \in {"fwd", "bwd"} : WF_vars(RepFind(k)) /\ WF_vars(RepWrite(k))

SpecWait == InitWait /\ [][NextWait]_vars /\ FairWait

\* ---------------------------------------------------- the progress timer

\* _replicate(source, target) for a source with `total` documents and a
\* target that holds tgt of them
PollRun(total, tgt, flag) ==
  /\ poll.pc = "off"
  /\ tgt <= total
  /\ poll' = [pc |-> "count", flag |-> flag, total |-> total, tgt |-> tgt,
              task |-> FALSE, timer |-> FALSE, current |-> 0, bar |-> 0,
              late |-> FALSE]
  /\ UNCHANGED <<mainVars, cli, sec, tomb, resp, cont>>

\* const { doc_count: total } = await request(source.href);
\* if (total === 0) return null; var current = 0;
\* const timer = setInterval(async () => { ... }, this.interval)
PollCount ==
  /\ poll.pc = "count"
  /\ \E ok \in BOOLEAN :
       poll' = IF ~ok THEN [poll EXCEPT !.pc = "threw"]
               ELSE IF poll.total = 0 THEN [poll EXCEPT !.pc = "returned"]
               ELSE [poll EXCEPT !.pc = "post", !.timer = TRUE]
  /\ UNCHANGED <<mainVars, cli, sec, tomb, resp, cont>>

\* the awaits of _replicate after the timer is set: POST /_replicate, the
\* polls of _waitForCompletion (one more after a sleep while a task is
\* behind), GET and PUT of _security with replicateSecurity; a request that
\* fails throws out of _replicate, and after the last one
\* bar.tick(total); clearInterval(timer)
PollAwait ==
  /\ poll.pc \in {"post", "wait", "sec_get", "sec_put"}
  /\ \E ok \in BOOLEAN, behind \in BOOLEAN :
       /\ behind => (ok /\ poll.pc = "wait" /\ poll.task /\ poll.tgt < poll.total)
       /\ LET last == \/ poll.pc = "sec_put"
                      \/ poll.pc = "wait" /\ ~poll.flag
          IN poll' =
               IF ~ok THEN [poll EXCEPT !.pc = "threw"]
               ELSE IF behind THEN poll
               ELSE IF last
                 THEN [poll EXCEPT !.pc = "returned", !.bar = poll.total,
                                   !.timer = FALSE]
               ELSE [poll EXCEPT
                       !.pc = CASE poll.pc = "post" -> "wait"
                                [] poll.pc = "wait" -> "sec_get"
                                [] poll.pc = "sec_get" -> "sec_put",
                       !.task = TRUE]
  /\ UNCHANGED <<mainVars, cli, sec, tomb, resp, cont>>

\* the replication task writes a document to the target
PollCopy ==
  /\ poll.pc # "off"
  /\ poll.task
  /\ poll.tgt < poll.total
  /\ poll' = [poll EXCEPT !.tgt = @ + 1]
  /\ UNCHANGED <<mainVars, cli, sec, tomb, resp, cont>>

\* the callback of setInterval: GET target.href -> latest;
\* bar.tick(latest - current); current = latest;
\* if (bar.complete) clearInterval(timer); a request that fails clears the
\* timer and throws in the callback
Tick ==
  /\ poll.pc # "off"
  /\ poll.timer
  /\ \E ok \in BOOLEAN :
       LET bar == poll.bar + (poll.tgt - poll.current)
           late == poll.late \/ poll.pc \in {"returned", "threw"}
       IN poll' = IF ~ok THEN [poll EXCEPT !.timer = FALSE, !.late = late]
                  ELSE [poll EXCEPT !.bar = bar, !.current = poll.tgt,
                                    !.timer = bar < poll.total,
                                    !.late = late]
  /\ UNCHANGED <<mainVars, cli, sec, tomb, resp, cont>>

NextPoller ==
  \/ \E total \in 0..MaxDocs, tgt \in 0..MaxDocs, flag \in BOOLEAN :
       PollRun(total, tgt, flag)
  \/ PollCount
  \/ PollAwait
  \/ PollCopy
  \/ Tick

SpecPoller == AllAtRest /\ [][NextPoller]_vars

\* ------------------------------------------- a continuous migration
\* createReplica with this.continuous, then replacePrimary on the same
\* engine.  cont.standing holds the entries that the continuous replication
\* of createReplica leaves in /_active_tasks and /_scheduler/jobs,
\* cont.others the entries of other clients.

\* an engine is constructed with the two flags and createReplica is called
ContRun(continuous, allow, old, others) ==
  /\ cont.pc = "off"
  /\ cont' = [pc |-> "guard", op |-> "createReplica",
              continuous |-> continuous, allow |-> allow, legacy |-> old,
              others |-> others, standing |-> {},
              src |-> TRUE, tgt |-> FALSE, destroyed |-> FALSE,
              err |-> "none"]
  /\ UNCHANGED <<mainVars, cli, sec, tomb, resp, poll>>

\* where createReplica and replacePrimary go on after the usage guard
ContAfterGuard(o) == IF o = "createReplica" THEN "replicate" ELSE "verify"

\* if (this.allowReplications) skip, else await this._isInUse(source): on
\* CouchDB 1.x the catch block returns null, otherwise every listed entry
\* is asserted on
ContGuard ==
  /\ cont.pc = "guard"
  /\ cont' = IF \/ cont.allow
                \/ cont.legacy
                \/ IsInUsePasses(cont.others \cup cont.standing, "src")
             THEN [cont EXCEPT !.pc = ContAfterGuard(cont.op)]
             ELSE [cont EXCEPT !.pc = "failed", !.err = "in_use"]
  /\ UNCHANGED <<mainVars, cli, sec, tomb, resp, poll>>

\* createReplica: _getUpdateSeq, _createDb(this.target) and the one-shot
\* _replicate(this.source, this.target), whose task ends
ContReplicate ==
  /\ cont.pc = "replicate"
  /\ cont' = [cont EXCEPT !.tgt = TRUE,
                          !.pc = IF cont.continuous THEN "continuous"
                                 ELSE "verify"]
  /\ UNCHANGED <<mainVars, cli, sec, tomb, resp, poll>>

\* if (this.continuous): POST /_replicate {source, target, continuous: true}
ContPost ==
  /\ cont.pc = "continuous"
  /\ cont' = [cont EXCEPT !.standing = {Entry("none", "src", "tgt")},
                          !.pc = "verify"]
  /\ UNCHANGED <<mainVars, cli, sec, tomb, resp, poll>>

\* createReplica: the update_seq comparison and _verifyReplica, then it
\* returns; replacePrimary: _verifyReplica, then the source is destroyed
ContVerify ==
  /\ cont.pc = "verify"
  /\ cont' = [cont EXCEPT !.pc = IF cont.op = "createReplica"
                                 THEN "returned" ELSE "destroy_src"]
  /\ UNCHANGED <<mainVars, cli, sec, tomb, resp, poll>>

\* replacePrimary is called on the engine whose createReplica returned
ContReplacePrimary ==
  /\ cont.pc = "returned"
  /\ cont' = [cont EXCEPT !.op = "replacePrimary", !.pc = "guard"]
  /\ UNCHANGED <<mainVars, cli, sec, tomb, resp, poll>>

\* replacePrimary: _destroyDb(this.source)
ContDestroySource ==
  /\ cont.pc = "destroy_src"
  /\ cont' = [cont EXCEPT !.src = FALSE, !.destroyed = TRUE,
                          !.pc = "create_src"]
  /\ UNCHANGED <<mainVars, cli, sec, tomb, resp, poll>>

\* replacePrimary: _createDb(this.source), _setUnavailable, _replicate back,
\* _destroyDb(this.target), _setAvailable; the replication whose target is
\* deleted is no longer listed
ContRestore ==
  /\ cont.pc = "create_src"
  /\ cont' = [cont EXCEPT !.src = TRUE, !.tgt = FALSE, !.standing = {},
                          !.pc = "done"]
  /\ UNCHANGED <<mainVars, cli, sec, tomb, resp, poll>>

NextContinuous ==
  \/ \E continuous \in BOOLEAN, allow \in BOOLEAN, old \in BOOLEAN,
        others \in JobChoices :
       ContRun(continuous, allow, old, others)
  \/ ContGuard
  \/ ContReplicate
  \/ ContPost
  \/ ContVerify
  \/ ContReplacePrimary
  \/ ContDestroySource
  \/ ContRestore

SpecContinuous == AllAtRest /\ [][NextContinuous]_vars

\* ------------------------------------------------------------ properties

\* The calls so far are one run of createReplica followed (once it returned)
\* by replacePrimary, and createReplica has at least begun.
InMigrationRun ==
  CASE Len(hist) = 0 -> op = "createReplica"
    [] Len(hist) = 1 -> /\ hist[1].op = "createReplica"
                        /\ (pc \in Resting \/ (op = "replacePrimary" /\ hist[1].ok))
    [] Len(hist) = 2 -> /\ hist[1] = [op |-> "createReplica", ok |-> TRUE]
                        /\ hist[2].op = "replacePrimary"
                        /\ pc \in Resting
    [] OTHER -> FALSE

\* Database d exists and holds every document the primary held when
\* createReplica began.
HoldsAll(d) == exists[d] /\ docs0 \subseteq docs[d]

\* C1: zero data loss.  In every state of a run of createReplica followed by
\* replacePrimary, with no writes by other clients, the source or the target
\* exists and holds every document the source held when createReplica began.
C1_ZeroDataLoss ==
  (InMigrationRun /\ writes = 0) => (HoldsAll("src") \/ HoldsAll("tgt"))

\* _isInUse returned to its caller without throwing in this call.
GuardReturned == guard \in {"passed", "legacy"}

\* A step that deletes the source database.
SourceDeleted == exists["src"] /\ ~exists'["src"]

\* C2 as stated: the source is deleted only by a replacePrimary in which
\* _isInUse and _verifyReplica have both run and passed.
C2_DestroyOnlyAfterBothChecks ==
  [][SourceDeleted => (op = "replacePrimary" /\ GuardReturned /\ verified)]_vars

\* C2 as amended: the source is deleted only by a replacePrimary in which
\* _verifyReplica has passed and _isInUse has either returned without
\* throwing or been skipped because allowReplications is set.
C2_DestroyOnlyAfterChecksOrBypass ==
  [][SourceDeleted =>
       /\ op = "replacePrimary"
       /\ verified
       /\ (GuardReturned \/ (allowReplications /\ guard = "skipped"))]_vars

\* replacePrimary has deleted the source after _isInUse passed on a
\* non-empty primary.
C2_Witness ==
  /\ pc = "create_src"
  /\ guard = "passed"
  /\ verified
  /\ docs["tgt"] # {}

\* C3: when replacePrimary has returned, the source exists with the engine's
\* settings, recreated by this call, the target does not exist and the
\* source's sentinel says available.
C3_ReplacePrimaryTerminal ==
  (op = "replacePrimary" /\ pc = "done") =>
    /\ exists["src"]
    /\ "PUT src" \in Range(reqs)
    /\ cfg["src"] = EngineQ
    /\ ~exists["tgt"]
    /\ IsAvailable("src")

\* replacePrimary has returned after deleting the sentinel it had set.
C3_Witness ==
  /\ op = "replacePrimary"
  /\ pc = "done"
  /\ reqs = <<"DELETE src", "PUT src", "PUT sentinel", "POST replicate",
              "DELETE tgt", "DELETE sentinel">>

\* C4: after createReplica and replacePrimary both returned, with the usage
\* guard on, no entries of other clients and no writes, the source holds the
\* documents it held before the run.
C4_SameDocsAfterRun ==
  ( /\ hist = <<[op |-> "createReplica", ok |-> TRUE],
                [op |-> "replacePrimary", ok |-> TRUE]>>
    /\ pc = "done"
    /\ ~allowReplications
    /\ jobs = {}
    /\ writes = 0 )
  => (exists["src"] /\ docs["src"] = docs0)

\* C5: when createReplica has returned and nobody wrote to the source since
\* it began, the target holds as many documents as the source did.
C5_ReplicaCountMatches ==
  (op = "createReplica" /\ pc = "done" /\ ~dirty /\ docs["src"] = docs0) =>
    DocCount("tgt") = Cardinality(docs0)

\* createReplica has returned after replicating a non-empty source into a
\* target that it created.
C5_Witness ==
  /\ op = "createReplica"
  /\ pc = "done"
  /\ ~dirty
  /\ docs0 # {}
  /\ cfg["tgt"] = EngineQ
  /\ "POST replicate" \in Range(reqs)
  /\ DocCount("tgt") = Cardinality(docs0)

\* C6: createReplica does not return when the update sequence of the source
\* advanced between the first snapshot and the check after replication.
C6_FailsWhenSeqAdvances ==
  (op = "createReplica" /\ pc = "done") => ~(lastSeq1 < lastSeq2)

\* C7: _isInUse fails if and only if an entry of the two lists references
\* the database (whenever both lists were fetched).
C7_InUseIffReferenced ==
  guard \in {"passed", "in_use"} => ((guard = "in_use") <=> refSeen)

\* C8: with an entry of another client referencing the source and
\* allowReplications unset, createReplica gets no further than the usage
\* guard: it has sent no PUT, POST or DELETE, and when it ends it has failed.
C8_InUseStopsCreateReplica ==
  ( /\ op = "createReplica"
    /\ ~allowReplications
    /\ \E e \in jobs : Refs(e, "src") )
  => /\ pc \in {"guard", "failed"}
     /\ reqs = <<>>
     /\ pc = "failed" => err \in {"in_use", "transport"}

\* C9: from the deletion of the primary by replacePrimary until
\* replacePrimary has returned, the primary does not exist or its sentinel
\* says down.
C9_UnavailableWhileReplaced ==
  (op = "replacePrimary" /\ "DELETE src" \in Range(reqs) /\ pc # "done") =>
    (~exists["src"] \/ sentinel["src"].st = "down")

\* A step of the engine inside createReplica.
CreateReplicaStep == op = "createReplica" /\ pc \notin Resting /\ pc' # pc

\* C10: no step of createReplica deletes a database or changes the source
\* (its existence, its documents, its sentinel).
C10_CreateReplicaNonDestructive ==
  [][CreateReplicaStep =>
       /\ \A d \in DbNames : exists[d] => exists'[d]
       /\ exists'["src"] = exists["src"]
       /\ docs'["src"] = docs["src"]
       /\ sentinel'["src"] = sentinel["src"]]_vars

\* createReplica has failed on a mismatch after replicating from a source
\* that carries a sentinel.
C10_Witness ==
  /\ op = "createReplica"
  /\ pc = "failed"
  /\ err = "mismatch"
  /\ sentinel["src"].st = "down"
  /\ docs["src"] # {}
  /\ exists["tgt"]

Solo(c) == \A o \in Callers \ {c} : caller[o].calls = 0

\* A call of f has returned to client c.
Returned(c) == caller[c].pc \in {"ok", "failed"}

\* C12: a client that calls _setUnavailable and _setAvailable one call
\* after the other, no other client calling, finds every call succeed and
\* _isAvailable answer what the last call asked for, whatever the sentinel
\* was at the start; so in particular for the second of two calls of the
\* same function.
C12_ConsecutiveSetCalls ==
  \A c \in Callers :
    (Solo(c) /\ Returned(c)) =>
      /\ caller[c].pc = "ok"
      /\ IsAvailable("src") <=> (caller[c].fn = "setAvailable")

\* The second of two consecutive calls of _setUnavailable has returned: the
\* first created the sentinel, the second updated it.
C12_Witness ==
  /\ Solo("a")
  /\ caller["a"] = [pc |-> "ok", fn |-> "setUnavailable",
                    prev |-> "setUnavailable", rev |-> 1, calls |-> 2,
                    err |-> "none"]
  /\ sentinel["src"] = [st |-> "down", rev |-> 2]

\* C13: when two clients call _setUnavailable / _setAvailable on the same
\* database concurrently, no call ends with an error, and when both have
\* returned the sentinel is what the last write asked for.
C13_ConcurrentCallsSucceed ==
  /\ \A c \in Callers : caller[c].pc # "failed"
  /\ ((\A c \in Callers : caller[c].pc = "ok") /\ lastWrite # "none") =>
       (IsAvailable("src") <=> (lastWrite = "setAvailable"))

\* The key under which nothing was migrated yet: '\u0000'.
LowestKey == <<0>>

RECURSIVE SortsAfter(_, _)
SortsAfter(a, b) ==
  IF a = <<>> THEN FALSE
  ELSE IF b = <<>> THEN TRUE
  ELSE IF Head(a) # Head(b) THEN Head(a) > Head(b)
  ELSE SortsAfter(Tail(a), Tail(b))

\* The databases of the cluster that are eligible for migration: the user
\* databases that exist, replicas and special databases left out.
Eligible == {n \in BulkNames : cluster[n] \in {"src", "src+copy", "new+copy"}}

\* C16: getRemaining returns, each once, exactly the eligible names that
\* sort strictly after the checkpoint, and every eligible name when there is
\* no checkpoint.
C16_RemainingSortAfterCheckpoint ==
  got.fn = "getRemaining" =>
    /\ Range(got.value) =
         IF got.last = <<>> THEN Eligible
         ELSE {n \in Eligible : SortsAfter(n, got.last[1])}
    /\ Len(got.value) = Cardinality(Range(got.value))

\* getRemaining after the checkpoint "a" on a cluster with "a", "a/b" and "b"
\* and their replicas has returned "a/b" and "b".
C16_Witness ==
  /\ got = [fn |-> "getRemaining", value |-> <<NameAB, NameB>>,
            last |-> <<NameA>>]
  /\ \A n \in BulkNames : cluster[n] = "src+copy"

\* C14: whenever the checkpoint file exists, its contents are the path
\* name of a database whose replacePrimary has returned.
C14_CheckpointNamesMigrated ==
  checkpoint # <<>> =>
    \E n \in migrated : GetCheckpoint(checkpoint) = PathName(n)

\* The checkpoint names "a/b", migrated, while the source of "b" is
\* destroyed and not yet recreated.
C14_Witness ==
  /\ checkpoint = WriteCheckpoint(PathName(NameAB))
  /\ bulk.pc = "recreate"
  /\ Cur = NameB
  /\ cluster[NameB] = "copy"
  /\ migrated = {NameA, NameAB}

\* C17: when migrate-all is started again after it was stopped or failed,
\* getRemaining returns exactly the databases of the first run whose
\* replacePrimary has not returned.
C17_ResumeSetIsCorrect ==
  (bulk.pc = "started" /\ bulk.run > 1) =>
    Range(bulk.list) = bulk.first \ migrated

\* C18: when the migration was begun again after a call that was stopped
\* before the source was destroyed, and createReplica and replacePrimary
\* have both returned, with no write by another client, the source exists
\* with the engine's settings and the documents it had, the target is gone
\* and the source is available.
C18_RerunReachesTerminalState ==
  ( /\ rerun
    /\ hist = <<[op |-> "createReplica", ok |-> TRUE],
                [op |-> "replacePrimary", ok |-> TRUE]>>
    /\ pc = "done"
    /\ writes = 0 )
  => /\ exists["src"]
     /\ cfg["src"] = EngineQ
     /\ docs["src"] = docs0
     /\ ~exists["tgt"]
     /\ IsAvailable("src")

\* A step in which the call in progress throws.
CallThrows == pc \notin Resting /\ pc' = "failed"

\* C19: the step in which createReplica or replacePrimary fails hands an
\* error to the caller and changes nothing on the cluster (nothing is
\* rolled back), and once the call has failed the engine sends nothing more
\* until it is called again.
C19_FailureAbortsWithoutRollback ==
  [][ /\ CallThrows =>
           /\ err' # "none"
           /\ hist' = Append(hist, [op |-> op, ok |-> FALSE])
           /\ reqs' = reqs
           /\ UNCHANGED serverVars
      /\ (pc = "failed" /\ pc' = "failed") => UNCHANGED <<engineVars, reqs, err>>
      /\ (pc = "failed" /\ pc' # "failed") => (reqs' = <<>> /\ hist' = hist) ]_vars

\* replacePrimary has failed on its request after the source was recreated:
\* the empty source and the replica are left as they were.
C19_Witness ==
  /\ op = "replacePrimary"
  /\ pc = "failed"
  /\ err = "transport"
  /\ reqs = <<"DELETE src", "PUT src">>
  /\ exists["src"] /\ docs["src"] = {}
  /\ exists["tgt"] /\ docs["tgt"] # {}
  /\ sentinel["src"].st = "absent"

\* C20: the source and the target of every engine that was constructed
\* differ in host or in database path.
C20_SourceAndTargetDiffer ==
  ctor.state = "built" => ctor.source # ctor.target

\* C21: every call of replacePrimary or replacePrimaries that a command
\* makes comes directly after a prompt of the same invocation that was
\* answered "y" or "Y", and after any other answer the handler makes no
\* call at all.
C21_ReplaceOnlyAfterConsent ==
  \A i \in DOMAIN cli.trace :
    LET e == cli.trace[i] IN
    /\ e.step \in {"replacePrimary", "replacePrimaries"} =>
         /\ i > 1
         /\ cli.trace[i - 1].step = "getConsent"
         /\ cli.trace[i - 1].value \in {"y", "Y"}
    /\ (e.step = "getConsent" /\ e.value \notin {"y", "Y"}) =>
         /\ i = Len(cli.trace)
         /\ cli.state = "returned"

\* start has replaced the primary after a "y" and has ended at the "yes"
\* given to its second prompt
C21_Witness ==
  /\ cli.cmd = "start"
  /\ cli.state = "returned"
  /\ Len(cli.trace) = 5
  /\ cli.trace[2].value = "y"
  /\ cli.trace[3] = [step |-> "replacePrimary", value |-> "", ok |-> TRUE]
  /\ cli.trace[5] = [step |-> "getConsent", value |-> "yes", ok |-> FALSE]

\* C22: with replicateSecurity, when _replicate(S, T) has returned, the
\* _security object of T is the one S had when _replicate was called, and S
\* still has it: for S the primary and T the replica in createReplica, for S
\* the replica and T the primary in replacePrimary, and for an S without
\* documents.
C22_SecurityFollowsReplication ==
  (sec.pc \in {"destroy_src", "destroy_tgt"} /\ sec.flag) =>
    /\ sec.obj[SecTo(sec.dir)] = sec.s0
    /\ sec.obj[SecFrom(sec.dir)] = sec.s0

C24_FailureIffErrorStatusOrMarker ==
  resp.pc = "settled" =>
    LET o == resp.outcome
        failed == resp.statusCode >= 400 \/ resp.body.error # ""
    IN /\ resp.net # "" => (o.kind = "rejected" /\ o.with = "err" /\ o.code = resp.net)
       /\ (resp.net = "" /\ failed) =>
            /\ o.kind = "rejected"
            /\ o.with = "Error"
            /\ o.options = resp.options
            /\ o.error = resp.body.error
            /\ o.message = resp.body
       /\ (resp.net = "" /\ ~failed) => (o.kind = "resolved" /\ o.body = resp.body)

ReplaceStep(p) ==
  CASE p = "guard" -> 1
    [] p \in {"verify1", "verify2"} -> 2
    [] p = "destroy_src" -> 3
    [] p = "create_src" -> 4
    [] p = "settle" -> 5
    [] p \in {"unavail_get", "unavail_put"} -> 6
    [] p \in {"rep_count", "rep_post", "rep_wait", "rep_sleep"} -> 7
    [] p = "destroy_tgt" -> 8
    [] p \in {"avail_get", "avail_del"} -> 9
    [] OTHER -> 10

\* the writes that the steps before step k have made, but for the POST of
\* the replication, which a replica without documents does not need
WritesBefore(k) ==
  LET made == <<[step |-> 3, req |-> "DELETE src"], [step |-> 4, req |-> "PUT src"],
                [step |-> 6, req |-> "PUT sentinel"], [step |-> 8, req |-> "DELETE tgt"]>>
      Before(m) == m.step < k
      done == SelectSeq(made, Before)
  IN [i \in DOMAIN done |-> done[i].req]

\* C26: replacePrimary goes through its steps in the order usage check,
\* verify match, destroy source, recreate source, settling delay, set
\* unavailable, replicate, destroy target, set available: each step of the
\* engine stays in a step or enters the next one, and while the engine is in
\* step k the writes it has had answered are those of the steps before k,
\* in that order, with the POST of the replication after the sentinel.
C26_ReplacePrimaryOrder ==
  /\ [](( op = "replacePrimary" /\ pc \notin Resting) =>
         LET NotPost(r) == r # "POST replicate"
             NotLast(r) == r # "DELETE sentinel"
         IN /\ SelectSeq(reqs, NotPost) = WritesBefore(ReplaceStep(pc))
            /\ "POST replicate" \in Range(reqs) =>
                 /\ ReplaceStep(pc) >= 7
                 /\ reqs[4] = "POST replicate"
                 /\ SelectSeq(reqs, NotLast) = reqs)
  /\ [][ (op = "replacePrimary" /\ op' = op /\ pc \notin Resting /\ pc' # "failed") =>
           ReplaceStep(pc') \in {ReplaceStep(pc), ReplaceStep(pc) + 1} ]_vars

\* replacePrimary is about to set the source available: the five writes
\* before that step were answered in the order of the claim
C26_Witness ==
  /\ op = "replacePrimary"
  /\ pc = "avail_get"
  /\ guard = "passed"
  /\ reqs = <<"DELETE src", "PUT src", "PUT sentinel", "POST replicate",
              "DELETE tgt">>
  /\ sentinel["src"].st = "down"

\* C27: createReplicas and replacePrimaries take the engines one at a time
\* in the order of the list. While createReplicas is at engine i every
\* engine before i has its replica; while replacePrimaries is at engine i
\* every engine before i is migrated and the checkpoint names engine i - 1,
\* and no engine after i has been touched. When an engine fails the
\* checkpoint, the cluster and the position stay as they are, and nothing
\* more happens until migrate-all is started again.
C27_EnginesOneAtATime ==
  /\ [](bulk.pc = "replicas" =>
          \A j \in 1..(bulk.i - 1) : cluster[bulk.list[j]] = "src+copy")
  /\ [](bulk.pc \in {"destroy", "recreate", "restore", "checkpoint"} =>
          /\ \A j \in 1..(bulk.i - 1) :
               cluster[bulk.list[j]] = "src" /\ bulk.list[j] \in migrated
          /\ \A j \in (bulk.i + 1)..Len(bulk.list) :
               cluster[bulk.list[j]] = "src+copy"
          /\ bulk.i > 1 =>
               checkpoint = WriteCheckpoint(PathName(bulk.list[bulk.i - 1])))
  /\ [][ /\ (bulk.pc # "failed" /\ bulk'.pc = "failed") =>
              /\ UNCHANGED <<checkpoint, cluster, migrated>>
              /\ bulk'.i = bulk.i /\ bulk'.list = bulk.list
         /\ bulk.pc = "failed" =>
              (bulk'.pc \in {"failed", "started"} /\ UNCHANGED <<checkpoint, cluster, migrated>>)
         /\ (bulk.pc = bulk'.pc /\ bulk.pc \in {"replicas", "destroy"}) =>
              bulk'.i = bulk.i + 1 ]_vars

\* the second engine of a bulk run has failed after its source was
\* destroyed: the checkpoint names the first engine, which is migrated
C27_Witness ==
  /\ bulk.pc = "failed"
  /\ Len(bulk.list) >= 2
  /\ bulk.i = 2
  /\ bulk.list[1] \in migrated
  /\ cluster[bulk.list[2]] = "copy"
  /\ checkpoint = WriteCheckpoint(PathName(bulk.list[1]))

\* C28: with allowReplications no request of the usage guard is ever made
\* and the calls go on whatever the lists hold; without it every call of
\* createReplica and replacePrimary begins with the usage guard, which has
\* ended before any other request of the call is made.
C28_GuardSkippedOrFirst ==
  /\ [](allowReplications =>
          (pc # "guard" /\ guard \in {"none", "skipped"} /\ ~refSeen))
  /\ []((~allowReplications /\ op \in Ops) =>
          /\ pc = "guard" <=> guard = "none"
          /\ pc = "guard" =>
               (reqs = <<>> /\ lastSeq1 = 0 /\ docCount1 = 0 /\ rev = 0))
  /\ [][ (pc \in Resting /\ pc' # pc) =>
           pc' = IF ~allowReplications THEN "guard"
                 ELSE IF op' = "createReplica" THEN "seq1" ELSE "verify1" ]_vars

\* with allowReplications replacePrimary has returned although a
\* replication of another client reads from the primary
C28_Witness ==
  /\ allowReplications
  /\ Entry("none", "src", "other") \in jobs
  /\ op = "replacePrimary"
  /\ pc = "done"
  /\ guard = "skipped"
  /\ "DELETE src" \in Range(reqs)

\* C29: when replacePrimary comes to compare the counts and the primary,
\* which no other client has written to since the call began, holds another
\* number of documents than the replica, the call fails with the mismatch
\* (or with the error of the transport) and changes nothing on the cluster;
\* a replacePrimary that has failed with a mismatch has sent no write, and
\* one that has destroyed the primary had read equal counts.
C29_MismatchStopsReplacePrimary ==
  /\ [][ ( /\ op = "replacePrimary"
           /\ pc = "verify2" /\ pc' # pc
           /\ exists["tgt"]
           /\ ~dirty
           /\ Cardinality(docs["src"]) # Cardinality(docs["tgt"]) ) =>
         ( /\ pc' = "failed"
           /\ err' \in {"mismatch", "transport"}
           /\ reqs' = <<>>
           /\ UNCHANGED serverVars ) ]_vars
  /\ []((op = "replacePrimary" /\ err = "mismatch") =>
          (pc = "failed" /\ reqs = <<>>))
  /\ []((op = "replacePrimary" /\ "DELETE src" \in Range(reqs)) => verified)

\* createReplica had succeeded, another client has written to the primary,
\* and replacePrimary has failed with the mismatch: primary and replica are
\* both there, with the documents they had
C29_Witness ==
  /\ op = "replacePrimary"
  /\ pc = "failed"
  /\ err = "mismatch"
  /\ Len(hist) = 2
  /\ hist[1] = [op |-> "createReplica", ok |-> TRUE]
  /\ writes > 0
  /\ exists["src"] /\ exists["tgt"]
  /\ Cardinality(docs["src"]) > Cardinality(docs["tgt"])
  /\ reqs = <<>>

\* C30: an error that a query of the usage guard is answered with, be it an
\* error of the server or of the transport, ends the call with that error:
\* of the errors of the server only file_exists on creating a database and
\* not_found on reading the sentinel are taken for a success.
C30_GuardErrorsPropagate ==
  guard \in {"legacy", "error"} => (pc = "failed" /\ err # "none")

\* C31: _waitForCompletion returns only from a poll in which no task of the
\* pair is behind, and the step that follows the replication (the second
\* read of update_seq in createReplica, the DELETE of the replica in
\* replacePrimary) is not taken while a task of the pair is behind.
C31_NextStepAfterTaskCaughtUp ==
  [][ /\ (pc = "rep_wait" /\ pc' = AfterReplicate) => ~IsUs(repl[RepDir])
      /\ (pc = AfterReplicate /\ pc \in {"seq2", "destroy_tgt"} /\ pc' # pc) =>
           ~IsUs(repl[RepDir]) ]_vars

\* C32: _replicate ends: an engine that is in _replicate comes to return
\* to its caller or to fail, and an engine that polls while no task of the
\* pair is behind, and none gets behind again, leaves the loop.
C32_ReplicateTerminates ==
  /\ (pc \in {"rep_count", "rep_post", "rep_wait", "rep_sleep"})
       ~> (pc \in {"seq2", "destroy_tgt", "failed"})
  /\ (pc \in {"rep_wait", "rep_sleep"} /\ [](~IsUs(repl[RepDir])))
       ~> (pc \notin {"rep_wait", "rep_sleep"})

\* _replicate has returned after a poll that found the task behind and a
\* sleep
C32_Witness ==
  /\ pc \in {"seq2", "destroy_tgt"}
  /\ err = "none"
  /\ "POST replicate" \in Range(reqs)
  /\ docs[RepFrom] # {}
  /\ docs[RepTo] = docs[RepFrom]
  /\ repl[RepDir] = NoTask

\* C33: a tick of the progress timer leaves _replicate where it is, and
\* once _replicate has returned or thrown the timer is cleared and no tick
\* runs any more.
C33_PollerStoppedOnExit ==
  /\ [][ (poll.pc # "off" /\ poll'.current # poll.current) =>
           poll'.pc = poll.pc ]_vars
  /\ [](poll.pc \in {"returned", "threw"} => (~poll.timer /\ ~poll.late))

\* C34: when migrate-all has ended and every database that its first run
\* listed is migrated, there is no checkpoint file, also when a run was
\* stopped between its last makeCheckpoint and removeCheckpoint and
\* migrate-all was run again.
C34_CheckpointRemovedAfterRun ==
  (bulk.pc = "done" /\ bulk.first # {} /\ bulk.first \subseteq migrated) =>
    checkpoint = <<>>

\* C35: the step of replacePrimary that deletes the replica is taken only
\* when the recreated source holds every document of the replica.
C35_ReplicaDestroyedAfterCopy ==
  [][ (op = "replacePrimary" /\ pc = "destroy_tgt"
         /\ exists["tgt"] /\ ~exists'["tgt"]) =>
        (exists["src"] /\ docs["tgt"] \subseteq docs["src"]) ]_vars

\* C36: with replicateSecurity, when createReplica and replacePrimary have
\* both returned, the _security object of the primary is the one it had
\* before the migration.
C36_SecurityKeptByMigration ==
  (sec.pc = "done" /\ sec.flag) => sec.obj["src"] = sec.orig

\* C37: a replacePrimary that follows a createReplica with continuous and
\* without allowReplications does not get past the usage guard: it fails
\* there with the in-use error and the source is never destroyed.
C37_ContinuousStopsAtGuard ==
  (cont.pc # "off" /\ cont.op = "replacePrimary" /\ cont.continuous
     /\ ~cont.allow) =>
    /\ ~cont.destroyed
    /\ cont.pc \in {"guard", "failed"}
    /\ cont.pc = "failed" => cont.err = "in_use"

\* C38: the step of replacePrimaries that writes the checkpoint of a
\* database writes the name that allDbs lists the database under, and
\* getRemaining, asked directly after it, does not return that database.
C38_CheckpointKeyIsListedName ==
  [][ (bulk.pc = "checkpoint" /\ checkpoint' # checkpoint) =>
        LET dbName == Cur IN
          /\ GetCheckpoint(checkpoint') = dbName
          /\ dbName \notin
               Range(GetRemaining(AllDbsRaw(cluster'), checkpoint')) ]_vars

\* C39: a replacePrimary that is called while the replica does not exist
\* gets no further than _verifyReplica: each of its steps up to there
\* leaves the databases as they are, and the read of the replica ends the
\* call with not_found (or with the transport's error when the request got
\* no answer).
C39_MissingReplicaFailsVerification ==
  [][ (op = "replacePrimary" /\ ~exists["tgt"]
         /\ pc \in {"guard", "verify1", "verify2"} /\ pc' # pc) =>
        /\ pc' \in {"verify1", "verify2", "failed"}
        /\ pc = "verify2" =>
             (pc' = "failed" /\ err' \in {"not_found", "transport"})
        /\ (pc = "verify2" /\ err' # "transport") => err' = "not_found"
        /\ UNCHANGED serverVars ]_vars

\* replacePrimary has failed with not_found at the read of the missing
\* replica, the source is there with its documents and no request that
\* changes anything was sent
C39_Witness ==
  /\ op = "replacePrimary"
  /\ pc = "failed"
  /\ err = "not_found"
  /\ exists["src"]
  /\ ~exists["tgt"]
  /\ docs["src"] = Docs
  /\ docCount1 = MaxDocs
  /\ reqs = <<>>

\* how many times the handler has awaited the call named step
Awaited(step) ==
  Cardinality({i \in DOMAIN cli.trace : cli.trace[i].step = step})

\* C40: one invocation of start calls createReplica once, prompts once and
\* calls replacePrimary at most once, and a replacePrimary that returned is
\* the last call the handler makes.
C40_StartMigratesOnce ==
  cli.cmd = "start" =>
    /\ Awaited("createReplica") <= 1
    /\ Awaited("getConsent") <= 1
    /\ Awaited("replacePrimary") <= 1
    /\ cli.state = "returned" =>
         (Awaited("createReplica") = 1 /\ Awaited("getConsent") = 1)
    /\ \A i \in DOMAIN cli.trace :
         (cli.trace[i].step = "replacePrimary" /\ cli.trace[i].ok) =>
           i = Len(cli.trace)

====
